---- MODULE Spec2Model ----
(***************************************************************************)
(* Inline XBRL document set (IXDS) discovery and target-instance           *)
(* materialisation of arelle/inline: ixdsDiscover and its nested helpers   *)
(* (IxdsLoader.py) and createTargetInstance (inline/__init__.py).          *)
(*                                                                         *)
(* Elements of the set are addressed by references <<kind, index>>; ids,   *)
(* tupleRef, continuedAt, fromRefs/toRefs are strings resolved through the *)
(* same dictionaries the loader builds.  "" stands for an absent attribute *)
(* and order 0 for a missing order.  Targets are numbers ordered as        *)
(* Python orders the target names: 0 is "(default)".                       *)
(***************************************************************************)
EXTENDS Integers, Sequences, FiniteSets, TLC

VARIABLES
  doc,        \* the document set: the parsed inline elements (static input)
  el,         \* attributes the passes write on the shared inline elements
  mx,         \* the modelXbrl of the pass that is running
  lc,         \* local dictionaries of the running ixdsDiscover call
  pc,         \* position of the running pass inside ixdsDiscover
  htmlIdx,    \* index of the htmlElement the fact loop of ixdsDiscover is at
  queue,      \* targetIXDSesToLoad of the primary modelXbrl (targets still to load)
  loaded,     \* modelXbrls whose discovery has completed, primary first
  instance,   \* the last target instance createTargetInstance produced
  pl          \* the plugin contexts of the controller and its plugins.json

vars == <<doc, el, mx, lc, pc, htmlIdx, queue, loaded, instance, pl>>

----------------------------------------------------------------------------
(* Bounds of the explored inputs *)
MaxTuples == 3
MaxConts == 2
MaxRelFacts == 3
MaxOps == 5

(* Program constants *)
DEFAULT_TARGET == 0
NONE == 3
VALID == 4

NoOverride == 0 - 1
NoElt == <<"none", 0>>
\* a locator without an href attribute
NoHref == [id |-> "", pos |-> 0]
defaultLinkRole == "L1"

----------------------------------------------------------------------------
(* Generic helpers *)

RECURSIVE SeqToSet(_)
SeqToSet(s) == IF s = <<>> THEN {} ELSE {Head(s)} \cup SeqToSet(Tail(s))

InSeq(x, s) == \E i \in 1..Len(s) : s[i] = x

RECURSIVE SortedSeq(_)
\* a set of numbers as an ascending sequence (Python sorted())
SortedSeq(S) ==
  IF S = {} THEN <<>>
  ELSE LET m == CHOOSE x \in S : \A y \in S : x <= y
       IN <<m>> \o SortedSeq(S \ {m})

Err(code, elts, ids) == [code |-> code, elts |-> elts, ids |-> ids]

----------------------------------------------------------------------------
(* Inline elements *)

NumFacts == Len(doc.facts)
FactIdx == 1..NumFacts
F(i) == doc.facts[i]

AllElts ==
  {<<"fact", i>> : i \in 1..Len(doc.facts)} \cup
  {<<"continuation", i>> : i \in 1..Len(doc.conts)} \cup
  {<<"footnote", i>> : i \in 1..Len(doc.footnotes)}

EltRec(e) ==
  CASE e[1] = "fact" -> doc.facts[e[2]]
    [] e[1] = "continuation" -> doc.conts[e[2]]
    [] e[1] = "footnote" -> doc.footnotes[e[2]]

\* ix-namespace ancestors of an element, nearest first
RECURSIVE IxAncestors(_)
IxAncestors(e) ==
  LET p == EltRec(e).parent
  IN IF p = NoElt THEN <<>>
     ELSE IF p[1] = "other" THEN <<p>>
     ELSE <<p>> \o IxAncestors(p)

IsTupleElt(e) == e[1] = "fact" /\ doc.facts[e[2]].kind = "tuple"

\* the targets of the ix:references elements in the order of their declaration
IxdsTargetsDeclared == doc.references

\* _ixdsTargets: sorted set of the targets of the ix:references elements
IxdsTargets == SortedSeq(SeqToSet(doc.references))

\* keys of targetReferenceAttrElts
ReferenceTargets == SeqToSet(doc.references)

\* documents of modelXbrl.ixdsHtmlElements, and of the elements queued in
\* targetIXDSesToLoad (the same elements when no plug-in isolates an IXDS)
HtmlDocs == 1..doc.ndocs
QueuedDocs == 1..doc.ndocs

\* keys of modelXbrl.ixTargetRootElements
RootTargets == ReferenceTargets \cup {DEFAULT_TARGET}

----------------------------------------------------------------------------
(* Dictionaries built by the index loop of ixdsDiscover *)

\* tupleElements: tuples that have a qname, in document order
TupleElements == SortedSeq({j \in 1..Len(doc.facts) : doc.facts[j].kind = "tuple" /\ doc.facts[j].name # ""})

ItemFacts == SortedSeq({j \in 1..Len(doc.facts) : doc.facts[j].kind = "item"})

\* tuplesByTupleID keeps the first tuple that carries a tupleID
TuplesByTupleID(id) ==
  LET c == {i \in FactIdx : F(i).kind = "tuple" /\ F(i).name # "" /\ F(i).tupleID = id}
  IN IF id = "" \/ c = {} THEN 0 ELSE CHOOSE i \in c : \A j \in c : i <= j

\* tuples whose tupleID an earlier tuple already carries
DuplicateTupleIDs ==
  SortedSeq({i \in FactIdx : F(i).kind = "tuple" /\ F(i).name # "" /\ F(i).tupleID # ""
                              /\ TuplesByTupleID(F(i).tupleID) # i})

\* position of a fact in the order the index loop assigns factsByFactID:
\* per htmlElement the tuples, then the item facts
IndexRank(i) == F(i).doc * 2 * (NumFacts + 1) + (IF F(i).kind = "tuple" THEN 0 ELSE NumFacts + 1) + i

\* factsByFactID[id] is assigned for every fact with that id; the last one stays
FactsByFactID(id) ==
  LET c == {i \in FactIdx : F(i).id = id /\ (F(i).kind = "item" \/ F(i).name # "")}
  IN IF id = "" \/ c = {} THEN 0 ELSE CHOOSE i \in c : \A j \in c : IndexRank(j) <= IndexRank(i)

ContinuationElements(id) ==
  LET c == {i \in 1..Len(doc.conts) : doc.conts[i].id = id}
  IN IF id = "" \/ c = {} THEN NoElt ELSE <<"continuation", CHOOSE i \in c : \A j \in c : j <= i>>

ModelInlineFootnotesById(id) ==
  LET c == {i \in 1..Len(doc.footnotes) : doc.footnotes[i].id = id}
  IN IF c = {} THEN 0 ELSE CHOOSE i \in c : \A j \in c : j <= i

\* modelDocument.idObjects of an htmlElement: ids carried by its elements
IdObjects(d) ==
  {EltRec(e).id : e \in {x \in AllElts : EltRec(x).doc = d}} \cup
  (IF d = 1 THEN doc.contexts \cup doc.units ELSE {})

\* factTargetContextRefs[t], factTargetUnitRefs[t] as the index loop fills them
FactTargetContextRefs(tg, t) == {F(i).contextRef : i \in {j \in FactIdx : F(j).kind = "item" /\ tg[j] = t}}
FactTargetUnitRefs(tg, t) == {F(i).unitRef : i \in {j \in FactIdx : F(j).kind = "item" /\ tg[j] = t}}
AllContextRefs == {F(i).contextRef : i \in {j \in FactIdx : F(j).kind = "item"}}
AllUnitRefs == {F(i).unitRef : i \in {j \in FactIdx : F(j).kind = "item"}}

\* targetRoleUris[t], targetArcroleUris[t]: link roles (arcroles) of the
\* relationships that name a fact of target t in fromRefs or toRefs
RelNamesFactOf(tg, r, t) ==
  \E i \in 1..Len(doc.rels[r].fromRefs \o doc.rels[r].toRefs) :
     /\ FactsByFactID((doc.rels[r].fromRefs \o doc.rels[r].toRefs)[i]) # 0
     /\ tg[FactsByFactID((doc.rels[r].fromRefs \o doc.rels[r].toRefs)[i])] = t
TargetRoleUris(tg, t) == {doc.rels[r].linkRole : r \in {x \in 1..Len(doc.rels) : RelNamesFactOf(tg, x, t)}}
TargetArcroleUris(tg, t) == {doc.rels[r].arcrole : r \in {x \in 1..Len(doc.rels) : RelNamesFactOf(tg, x, t)}}

\* targetRoleRefs (targetArcroleRefs): the declared references whose URI the
\* target uses, in document order
UsedRefs(declared, uris) ==
  LET idx == SortedSeq({j \in 1..Len(declared) : declared[j] \in uris})
  IN [i \in 1..Len(idx) |-> declared[idx[i]]]

\* assignUnusedContextsUnits of the modelXbrl m whose targetIXDSesToLoad is q
assignUnusedContextsUnitsAnyTarget(m, q) ==
  /\ ~m.supplemental
  /\ (q = <<>> \/ HtmlDocs = QueuedDocs)

assignUnusedContextsUnits(m, q) ==
  /\ ~m.supplemental
  /\ m.ixdsTarget = DEFAULT_TARGET
  /\ (q = <<>> \/ HtmlDocs = QueuedDocs)

\* the declared contexts (units) that contextDiscover (unitDiscover) is called for
ReferencedResources(declared, refs, allRefs, assignUnused) ==
  {id \in declared : id \in refs}

DiscoveredResources(declared, refs, allRefs, assignUnused) ==
  {id \in declared : id \in refs \/ (assignUnused /\ id \notin allRefs)}

----------------------------------------------------------------------------
(* Nested helpers of ixdsDiscover.  S is the state they read and write:    *)
(* S.el the element attributes, S.mx the modelXbrl, S.lc the locals.       *)

AddError(S, e) == [S EXCEPT !.mx.errors = Append(@, e)]

\* the tuple a fact is located in (0: none): tupleRef, else the nearest
\* ix ancestor when that is a tuple
FactTuple(f) ==
  IF F(f).tupleRef # "" THEN TuplesByTupleID(F(f).tupleRef)
  ELSE IF IxAncestors(<<"fact", f>>) # <<>> /\ IsTupleElt(IxAncestors(<<"fact", f>>)[1])
  THEN IxAncestors(<<"fact", f>>)[1][2]
  ELSE 0

\* ixTargetRootElements[target], or ixTargetRootElements[None] on a KeyError
RootOf(roots, t) == IF t \in roots THEN <<"root", t>> ELSE <<"root", DEFAULT_TARGET>>

\* neither lookup of ixTargetRootElements finds a root: the KeyError of the
\* except clause leaves ixdsDiscover (mx.raised; the loops and the statements
\* after the raising call are skipped)
NoRootFor(roots, t) == t \notin roots /\ DEFAULT_TARGET \notin roots

\* locateFactInTuple when a tuple was found ("if tuple is not None")
LocateInTuple(S, f, tup) ==
  [S EXCEPT
     !.el.unordered[tup] = IF F(f).order # 0 THEN Append(@, f) ELSE @,
     !.mx.errors = @ \o
        (IF F(f).order = 0
         THEN <<Err("tupleMemberOrderMissing", <<<<"fact", f>>>>, <<>>)>> ELSE <<>>) \o
        (IF S.el.target[f] # S.el.target[tup]
         THEN <<Err("tupleMemberDifferentTarget", <<<<"fact", f>>, <<"fact", tup>>>>, <<>>)>> ELSE <<>>),
     !.el.ixFactParent[f] = IF S.el.target[f] = S.el.target[tup] THEN <<"fact", tup>> ELSE @]

\* locateFactInTuple when no tuple was found
LocateAtRoot(S, f) ==
  [S EXCEPT
     !.mx.errors = IF F(f).tupleRef # ""
                   THEN Append(@, Err("tupleRefMissing", <<<<"fact", f>>>>, <<F(f).tupleRef>>))
                   ELSE @,
     !.mx.facts = IF S.el.target[f] = S.mx.ixdsTarget THEN Append(@, f) ELSE @,
     !.el.ixFactParent[f] = IF NoRootFor(S.mx.roots, S.el.target[f]) THEN @
                            ELSE RootOf(S.mx.roots, S.el.target[f]),
     !.mx.raised = NoRootFor(S.mx.roots, S.el.target[f])]

locateFactInTuple(S, f) ==
  IF FactTuple(f) # 0 THEN LocateInTuple(S, f, FactTuple(f)) ELSE LocateAtRoot(S, f)

addItemFactToTarget(S, f) == [S EXCEPT !.mx.factsInInstance = @ \cup {f}]

\* the callers' "if fact.get("target") == ixdsTarget: addItemFactToTarget(fact)";
\* not reached once an exception has been raised
AddFactIfInTarget(S, f) ==
  IF ~S.mx.raised /\ S.el.target[f] = S.mx.ixdsTarget THEN addItemFactToTarget(S, f) ELSE S

\* the while loop of locateContinuation; W carries S, chain, element, contAt
RECURSIVE ContinuationWalk(_)

\* ContinuationStep without the finding for a continuedAt no element carries
ContinuationStepSilent(W, contElt) ==
  IF contElt = NoElt
  THEN IF W.contAt \in IdObjects(EltRec(W.element).doc)
       THEN [W EXCEPT !.S = AddError(@, Err("continuationTarget", <<W.element>>, <<W.contAt>>))]
       ELSE W
  ELSE IF InSeq(contElt, W.chain)
  THEN [W EXCEPT !.S = AddError(@, Err("continuationCycle", Append(W.chain, contElt),
                                        [i \in 1..Len(W.chain) |-> EltRec(W.chain[i]).continuedAt])),
                 !.chain = Append(@, contElt)]
  ELSE ContinuationWalk([S |-> [W.S EXCEPT !.el.contElt[W.element] = contElt],
                         chain |-> Append(W.chain, contElt),
                         element |-> contElt,
                         contAt |-> EltRec(contElt).continuedAt])

\* ContinuationStep that sets _continuationElement on the head of the chain
ContinuationStepHead(W, contElt) ==
  IF contElt = NoElt
  THEN [W EXCEPT !.S =
         AddError(@, Err(IF W.contAt \in IdObjects(EltRec(W.element).doc)
                         THEN "continuationTarget" ELSE "continuationMissing",
                         <<W.element>>, <<W.contAt>>))]
  ELSE IF InSeq(contElt, W.chain)
  THEN [W EXCEPT !.S = AddError(@, Err("continuationCycle", Append(W.chain, contElt),
                                        [i \in 1..Len(W.chain) |-> EltRec(W.chain[i]).continuedAt])),
                 !.chain = Append(@, contElt)]
  ELSE ContinuationWalk([S |-> [W.S EXCEPT !.el.contElt[W.chain[1]] = contElt],
                         chain |-> Append(W.chain, contElt),
                         element |-> contElt,
                         contAt |-> EltRec(contElt).continuedAt])

\* one iteration of the loop once continuationReferences[contAt] has the element
ContinuationStep(W, contElt) ==
  IF contElt = NoElt
  THEN [W EXCEPT !.S =
         AddError(@, Err(IF W.contAt \in IdObjects(EltRec(W.element).doc)
                         THEN "continuationTarget" ELSE "continuationMissing",
                         <<W.element>>, <<W.contAt>>))]
  ELSE IF InSeq(contElt, W.chain)
  THEN [W EXCEPT !.S = AddError(@, Err("continuationCycle", Append(W.chain, contElt),
                                        [i \in 1..Len(W.chain) |-> EltRec(W.chain[i]).continuedAt])),
                 !.chain = Append(@, contElt)]
  ELSE ContinuationWalk([S |-> [W.S EXCEPT !.el.contElt[W.element] = contElt],
                         chain |-> Append(W.chain, contElt),
                         element |-> contElt,
                         contAt |-> EltRec(contElt).continuedAt])

ContinuationWalk(W) ==
  IF W.contAt = "" THEN W
  ELSE ContinuationStep(
         [W EXCEPT !.S.lc.continuationReferences = @ \cup {<<W.contAt, W.element>>}],
         ContinuationElements(W.contAt))

\* chain elements nested in another chain element, as
\* <<chain element, ancestor>> in the loop's order
ChainNestings(chain) ==
  LET anc(i) == IxAncestors(chain[i])
      RECURSIVE Inner(_, _)
      Inner(i, k) ==
        IF i > Len(chain) THEN <<>>
        ELSE IF k > Len(anc(i)) THEN Inner(i + 1, 1)
        ELSE (IF InSeq(anc(i)[k], chain) THEN <<<<chain[i], anc(i)[k]>>>> ELSE <<>>) \o Inner(i, k + 1)
  IN Inner(1, 1)

RECURSIVE ReportNestings(_, _, _)
ReportNestings(S, chain, nest) ==
  IF nest = <<>> THEN S
  ELSE ReportNestings(
         AddError([S EXCEPT !.el.contElt[chain[1]] = NoElt],
                  Err("continuationChainNested", <<nest[1][1], nest[1][2]>>, <<>>)),
         chain, Tail(nest))

\* "check if any chain element is descendant of another"
CheckChainNesting(W) == ReportNestings(W.S, W.chain, ChainNestings(W.chain))

locateContinuation(S, element) ==
  IF EltRec(element).continuedAt = "" \/ S.mx.raised THEN S
  ELSE CheckChainNesting(
         ContinuationWalk([S |-> S, chain |-> <<element>>, element |-> element,
                           contAt |-> EltRec(element).continuedAt]))

----------------------------------------------------------------------------
(* Body of the per-htmlElement fact loop of ixdsDiscover *)

RECURSIVE LocateTuples(_, _)
\* "hook up tuples to their container"
LocateTuples(S, ts) ==
  IF ts = <<>> \/ S.mx.raised THEN S
  ELSE LocateTuples(AddFactIfInTarget(locateFactInTuple(S, Head(ts)), Head(ts)), Tail(ts))

\* body of the loop over the item facts of an htmlElement
LocateItem(S, f) ==
  IF F(f).name = ""
  THEN AddError(S, Err("missingReferences", <<<<"fact", f>>>>, <<>>))
  ELSE locateContinuation(locateFactInTuple(AddFactIfInTarget(S, f), f), <<"fact", f>>)

RECURSIVE LocateItems(_, _)
LocateItems(S, fs) ==
  IF fs = <<>> \/ S.mx.raised THEN S
  ELSE LocateItems(
         LocateItem([S EXCEPT !.lc.factTargetIDs = @ \cup {S.el.target[Head(fs)]}], Head(fs)),
         Tail(fs))

\* orders used in unorderedTupleFacts of a tuple, in insertion order of the keys
RECURSIVE OrderKeys(_, _)
OrderKeys(members, seen) ==
  IF members = <<>> THEN <<>>
  ELSE LET o == F(Head(members)).order
       IN IF o \in seen THEN OrderKeys(Tail(members), seen)
          ELSE <<o>> \o OrderKeys(Tail(members), seen \cup {o})

\* unorderedTupleFacts[order] of a tuple
OrderGroup(members, o) ==
  LET idx == SortedSeq({j \in 1..Len(members) : F(members[j]).order = o})
  IN [i \in 1..Len(idx) |-> members[idx[i]]]

\* normalizeSpace: leading and trailing white space is stripped, runs of white
\* space become one blank (over the strings the explored documents use)
normalizeSpace(s) == IF s = " v " THEN "v" ELSE s

StringAttrs == {"name", "id", "tupleID", "tupleRef", "contextRef", "unitRef", "continuedAt"}

\* the comparison of facts[0] with f in the duplicate-order check: the value
\* and every attribute facts[0] carries, order excepted
SameOrderEqual(tg, first, f) ==
  /\ normalizeSpace(F(first).value) = normalizeSpace(F(f).value)
  /\ \A a \in StringAttrs :
        F(first)[a] # "" => normalizeSpace(F(first)[a]) = normalizeSpace(F(f)[a])
  /\ tg[first] # DEFAULT_TARGET => tg[first] = tg[f]

RECURSIVE SameOrderErrors(_, _, _)
SameOrderErrors(tg, members, keys) ==
  IF keys = <<>> THEN <<>>
  ELSE LET facts == OrderGroup(members, Head(keys))
       IN (IF Len(facts) > 1 /\ ~(\A k \in 2..Len(facts) : SameOrderEqual(tg, facts[1], facts[k]))
           THEN <<Err("tupleSameOrderMembersUnequal", [i \in 1..Len(facts) |-> <<"fact", facts[i]>>], <<>>)>>
           ELSE <<>>) \o SameOrderErrors(tg, members, Tail(keys))

\* modelTupleFacts with the last fact of every order kept
ModelTupleFactsLast(members) ==
  LET keys == SortedSeq({F(members[i]).order : i \in 1..Len(members)})
  IN [k \in 1..Len(keys) |->
        OrderGroup(members, keys[k])[Len(OrderGroup(members, keys[k]))]]

\* modelTupleFacts: the first fact of every order, by ascending order
ModelTupleFacts(members) ==
  LET keys == SortedSeq({F(members[i]).order : i \in 1..Len(members)})
  IN [k \in 1..Len(keys) |-> OrderGroup(members, keys[k])[1]]

RECURSIVE OrderTupleFacts(_, _)
\* "order tuple facts" loop over tupleElements
OrderTupleFacts(S, ts) ==
  IF ts = <<>> \/ S.mx.raised THEN S
  ELSE OrderTupleFacts(
         [S EXCEPT !.mx.errors = @ \o SameOrderErrors(S.el.target, S.el.unordered[Head(ts)],
                                                      OrderKeys(S.el.unordered[Head(ts)], {})),
                   !.el.modelTupleFacts[Head(ts)] = ModelTupleFacts(S.el.unordered[Head(ts)])],
         Tail(ts))

RECURSIVE checkForTupleCycle(_, _, _, _)
\* errors of checkForTupleCycle(parentTuple, tupleNesting), from child k on
checkForTupleCycle(mtf, parentTuple, tupleNesting, k) ==
  IF k > Len(mtf[parentTuple]) THEN <<>>
  ELSE LET fact == mtf[parentTuple][k]
       IN (IF InSeq(fact, tupleNesting)
           THEN <<Err("tupleNestingCycle",
                      [i \in 1..(Len(tupleNesting) + 1) |-> <<"fact", Append(tupleNesting, fact)[i]>>], <<>>)>>
           ELSE checkForTupleCycle(mtf, fact, Append(tupleNesting, fact), 1))
          \o checkForTupleCycle(mtf, parentTuple, tupleNesting, k + 1)

RECURSIVE CheckTupleCycles(_, _)
CheckTupleCycles(S, ts) ==
  IF ts = <<>> \/ S.mx.raised THEN S
  ELSE CheckTupleCycles(
         [S EXCEPT !.mx.errors = @ \o checkForTupleCycle(S.el.modelTupleFacts, Head(ts), <<Head(ts)>>, 1)],
         Tail(ts))

RECURSIVE LocateFootnoteContinuations(_, _)
LocateFootnoteContinuations(S, ns) ==
  IF ns = <<>> \/ S.mx.raised THEN S
  ELSE LocateFootnoteContinuations(locateContinuation(S, <<"footnote", Head(ns)>>), Tail(ns))

TuplesOfDoc(d) ==
  SortedSeq({j \in 1..Len(doc.facts) :
               doc.facts[j].kind = "tuple" /\ doc.facts[j].name # "" /\ doc.facts[j].doc = d})
ItemsOfDoc(d) == SortedSeq({j \in 1..Len(doc.facts) : doc.facts[j].kind = "item" /\ doc.facts[j].doc = d})
FootnotesOfDoc(d) == SortedSeq({j \in 1..Len(doc.footnotes) : doc.footnotes[j].doc = d})

DiscoverHtmlElement(S, d) ==
  LocateFootnoteContinuations(
    CheckTupleCycles(
      OrderTupleFacts(
        LocateItems(LocateTuples(S, TuplesOfDoc(d)), ItemsOfDoc(d)),
        TupleElements),
      TupleElements),
    FootnotesOfDoc(d))

----------------------------------------------------------------------------
(* Relationship loop of ixdsDiscover (ix:relationship elements) *)

RECURSIVE SetToSeq(_)
SetToSeq(X) == IF X = {} THEN <<>> ELSE LET x == CHOOSE y \in X : TRUE IN <<x>> \o SetToSeq(X \ {x})

\* relHasFromFactsInTarget set by any fromRef that names a fact
RelHasFromFacts(S, r) ==
  \E i \in 1..Len(doc.rels[r].fromRefs) : FactsByFactID(doc.rels[r].fromRefs[i]) # 0

RelHasFromFactsInTarget(S, r) ==
  \E i \in 1..Len(doc.rels[r].fromRefs) :
     LET f == FactsByFactID(doc.rels[r].fromRefs[i])
     IN f # 0 /\ S.el.target[f] = S.mx.ixdsTarget

FromLabels(r) == SeqToSet(doc.rels[r].fromRefs)

\* the loop's sets before the toRefs loop, S being T.S
NewToRefs(S) ==
  [S |-> S, toLabels |-> {}, toFootnoteIds |-> {}, toFacts |-> {},
   matched |-> {}, notFound |-> {}, relHasTo |-> FALSE]

\* the base sets and the locators of the fromRefs
FromLocs(S, r, relHasFrom) ==
  [S EXCEPT
     !.mx.baseSets = IF relHasFrom THEN @ \cup {doc.rels[r].linkRole} ELSE @,
     !.mx.links = IF relHasFrom /\ doc.rels[r].linkRole \notin S.mx.baseSets
                  THEN Append(@, [role |-> doc.rels[r].linkRole, ix |-> 11]) ELSE @,
     !.mx.locs = IF relHasFrom
                 THEN @ \cup {<<doc.rels[r].linkRole, id>> : id \in {x \in FromLabels(r) : FactsByFactID(x) # 0}}
                 ELSE @]

\* toId is the id of a footnote
ToFootnote(T, linkrole, toId, relHasFrom) ==
  [T EXCEPT !.toLabels = @ \cup {toId},
            !.toFootnoteIds = @ \cup {toId},
            !.S.mx.resources = IF relHasFrom THEN @ \cup {<<linkrole, toId>>} ELSE @,
            !.relHasTo = @ \/ (relHasFrom /\ <<linkrole, toId>> \notin T.S.mx.resources)]

\* "copy fact to target when not there"
ReassignFact(T, f, relHasFrom) ==
  IF relHasFrom /\ T.S.el.target[f] # T.S.mx.ixdsTarget
  THEN [T EXCEPT !.S = locateFactInTuple(
                         addItemFactToTarget([@ EXCEPT !.el.target[f] = T.S.mx.ixdsTarget], f), f)]
  ELSE T

\* the locator of a to fact that is in the target
ToLoc(T, linkrole, toId, f) ==
  IF ~T.S.mx.raised /\ T.S.el.target[f] = T.S.mx.ixdsTarget
  THEN [T EXCEPT !.S.mx.locs = @ \cup {<<linkrole, toId>>},
                 !.toFacts = @ \cup {f},
                 !.relHasTo = TRUE]
  ELSE T

\* toId is the id of a fact
ToFact(T, linkrole, toId, f, relHasFrom) ==
  IF <<linkrole, toId>> \in T.S.mx.locs
  THEN [T EXCEPT !.toLabels = @ \cup {toId}]
  ELSE ToLoc(ReassignFact([T EXCEPT !.toLabels = @ \cup {toId}], f, relHasFrom), linkrole, toId, f)

FromToMatch(T, r, toId) ==
  IF ~T.S.mx.raised /\ toId \in FromLabels(r) THEN [T EXCEPT !.matched = @ \cup {toId}] ELSE T

\* one iteration of the toRefs loop; T carries S and the loop's sets
ToRefStep(T, r, toId, relHasFrom) ==
  FromToMatch(
    IF ModelInlineFootnotesById(toId) # 0
    THEN ToFootnote(T, doc.rels[r].linkRole, toId, relHasFrom)
    ELSE IF FactsByFactID(toId) # 0
    THEN ToFact(T, doc.rels[r].linkRole, toId, FactsByFactID(toId), relHasFrom)
    ELSE [T EXCEPT !.notFound = @ \cup {toId}],
    r, toId)

RECURSIVE ToRefsLoop(_, _, _, _)
ToRefsLoop(T, r, toRefs, relHasFrom) ==
  IF toRefs = <<>> \/ T.S.mx.raised THEN T
  ELSE ToRefsLoop(ToRefStep(T, r, Head(toRefs), relHasFrom), r, Tail(toRefs), relHasFrom)

\* arcs appended for one relationship
RelArcs(r, fromLabels, toLabels) ==
  {[linkrole |-> doc.rels[r].linkRole, from |-> a, to |-> b, rel |-> r] : a \in fromLabels, b \in toLabels}

\* the statements of the relationship loop after the toRefs loop
FinishRelationship(T, r, relHasFrom) ==
  IF T.S.mx.raised THEN T.S ELSE
  [T.S EXCEPT
     !.mx.targetRelationships = IF relHasFrom /\ T.relHasTo THEN @ \cup {r} ELSE @,
     !.mx.errors = @ \o
        (IF T.notFound # {}
         THEN <<Err("relationshipToRef", <<<<"relationship", r>>>>, SetToSeq(T.notFound))>> ELSE <<>>) \o
        (IF T.matched # {}
         THEN <<Err("relationshipFromToMatch", <<<<"relationship", r>>>>, SetToSeq(T.matched))>> ELSE <<>>) \o
        (IF T.toFootnoteIds # {} /\ T.toFacts # {}
         THEN <<Err("relationshipReferencesMixed", <<<<"relationship", r>>>>, SetToSeq(T.toFootnoteIds))>>
         ELSE <<>>),
     !.mx.arcs = @ \cup RelArcs(r, FromLabels(r), T.toLabels)]

ProcessRelationship(S, r) ==
  FinishRelationship(
    ToRefsLoop(NewToRefs(FromLocs(S, r, RelHasFromFactsInTarget(S, r))),
               r, doc.rels[r].toRefs, RelHasFromFactsInTarget(S, r)),
    r, RelHasFromFactsInTarget(S, r))

\* footnoteRefs[footnoteID]: the tuples the index loop met, then the item
\* facts the fact loop met, that name the footnote in their footnoteRefs
FootnoteRefs(id) ==
  SortedSeq({j \in 1..Len(doc.facts) :
               F(j).kind = "tuple" /\ F(j).name # "" /\ id \in F(j).footnoteRefs}) \o
  SortedSeq({j \in 1..Len(doc.facts) :
               F(j).kind = "item" /\ F(j).name # "" /\ id \in F(j).footnoteRefs})

\* "check if any footnoteRef fact is in this target instance"
FootnoteInTarget(S, k) ==
  \E i \in 1..Len(FootnoteRefs(doc.footnotes10[k].id)) :
     S.el.target[FootnoteRefs(doc.footnotes10[k].id)[i]] = S.mx.ixdsTarget

\* the locators of an inline 1.0 footnote, one for each fact that refers to
\* it; the locator is made from the fact and has no href yet
FootnoteLocs(k, refs) ==
  [i \in 1..Len(refs) |->
     [role |-> doc.footnotes10[k].linkRole, label |-> doc.footnotes10[k].id,
      fact |-> refs[i], href |-> NoHref]]

RECURSIVE Footnotes10Loop(_, _)
\* the loop over the inline 1.0 footnotes: link, locators, resource and arc
Footnotes10Loop(S, k) ==
  IF k > Len(doc.footnotes10) THEN S
  ELSE IF ~FootnoteInTarget(S, k) THEN Footnotes10Loop(S, k + 1)
  ELSE Footnotes10Loop(
         [S EXCEPT
            !.mx.links = IF \E i \in 1..Len(@) : @[i] = [role |-> doc.footnotes10[k].linkRole, ix |-> 10]
                         THEN @ ELSE Append(@, [role |-> doc.footnotes10[k].linkRole, ix |-> 10]),
            !.mx.footnoteLocs = @ \o FootnoteLocs(k, FootnoteRefs(doc.footnotes10[k].id))],
         k + 1)

RECURSIVE RelationshipsLoop(_, _)
RelationshipsLoop(S, r) ==
  IF r > Len(doc.rels) \/ S.mx.raised THEN S ELSE RelationshipsLoop(ProcessRelationship(S, r), r + 1)

----------------------------------------------------------------------------
(* Checks after the loops *)

\* the reference checks reporting an undefined target as an error
ReferenceErrorsTargetError(S) ==
  [S EXCEPT
     !.mx.errors = @ \o
        (IF ReferenceTargets = {} THEN <<Err("missingReferences", <<>>, <<>>)>> ELSE <<>>) \o
        (IF S.lc.factTargetIDs \ ReferenceTargets # {}
         THEN <<Err("missingReferenceTargets", <<>>, <<>>)>> ELSE <<>>) \o
        (IF S.mx.ixdsTarget \notin S.lc.factTargetIDs /\ S.mx.ixdsTarget \notin ReferenceTargets
         THEN <<Err("ixdsTargetNotDefined", <<>>, <<>>)>> ELSE <<>>)]

ReferenceErrors(S) ==
  [S EXCEPT
     !.mx.errors = @ \o
        (IF ReferenceTargets = {} THEN <<Err("missingReferences", <<>>, <<>>)>> ELSE <<>>) \o
        (IF S.lc.factTargetIDs \ ReferenceTargets # {}
         THEN <<Err("missingReferenceTargets", <<>>, <<>>)>> ELSE <<>>),
     !.mx.warnings = IF S.mx.ixdsTarget \notin S.lc.factTargetIDs /\ S.mx.ixdsTarget \notin ReferenceTargets
                     THEN Append(@, Err("ixdsTargetNotDefined", <<>>, <<>>))
                     ELSE @]

ContinuationReferenceErrors(S) ==
  LET refs == S.lc.continuationReferences
      multi == {id \in {p[1] : p \in refs} : Cardinality({p \in refs : p[1] = id}) > 1}
      orphan == {id \in {doc.conts[i].id : i \in 1..Len(doc.conts)} :
                   id # "" /\ id \notin {p[1] : p \in refs}}
      e1 == [i \in 1..Cardinality(multi) |-> Err("continuationReferences", <<>>, <<SetToSeq(multi)[i]>>)]
      e2 == [i \in 1..Cardinality(orphan) |-> Err("continuationNotReferenced", <<>>, <<SetToSeq(orphan)[i]>>)]
  IN [S EXCEPT !.mx.errors = @ \o e1 \o e2]

----------------------------------------------------------------------------
(* createTargetInstance *)

\* every skipped fact collected in invalidFacts, whatever its validation state
ReportAnySkipped(f) == <<f>>

\* "if fact.xValid < NONE: # don't report Redacted facts": what a skipped fact
\* adds to invalidFacts
ReportSkipped(f) == IF F(f).xValid < NONE THEN <<f>> ELSE <<>>

RECURSIVE createFacts(_, _, _, _, _)
\* facts created under parent (0: the root element), the facts collected in
\* invalidFacts, and whether the recursion re-entered a tuple that is open
createFacts(mtf, facts, parent, skipInvalid, open) ==
  IF facts = <<>> THEN [emitted |-> <<>>, invalidFacts |-> <<>>, overflow |-> FALSE]
  ELSE LET f == Head(facts)
           rest == createFacts(mtf, Tail(facts), parent, skipInvalid, open)
           this ==
             IF F(f).xValid < VALID /\ skipInvalid
             THEN [emitted |-> <<>>,
                   invalidFacts |-> ReportSkipped(f),
                   overflow |-> FALSE]
             ELSE IF F(f).kind = "item"
             THEN [emitted |-> <<[fact |-> f, parent |-> parent]>>, invalidFacts |-> <<>>, overflow |-> FALSE]
             ELSE IF f \in open
             THEN [emitted |-> <<>>, invalidFacts |-> <<>>, overflow |-> TRUE]
             ELSE LET sub == createFacts(mtf, mtf[f], f, skipInvalid, open \cup {f})
                  IN [sub EXCEPT !.emitted = <<[fact |-> f, parent |-> parent]>> \o @]
       IN [emitted |-> this.emitted \o rest.emitted,
           invalidFacts |-> this.invalidFacts \o rest.invalidFacts,
           overflow |-> this.overflow \/ rest.overflow]

\* the link roles in use, in the sorted order of their URIs
LinkRoles == <<"L1", "L2">>

\* the link prototypes in the order of their registration in baseSets
InsertionOrderLinks(links, k) ==
  IF k = 1 THEN links ELSE <<>>

RECURSIVE SortedLinks(_, _)
\* "for linkrole in sorted(footnoteLinks.keys()): for linkPrototype in
\* footnoteLinks[linkrole]", from the k-th link role on
SortedLinks(links, k) ==
  IF k > Len(LinkRoles) THEN <<>>
  ELSE LET idx == SortedSeq({j \in 1..Len(links) : links[j].role = LinkRoles[k]})
       IN [i \in 1..Len(idx) |-> links[idx[i]]] \o SortedLinks(links, k + 1)

\* the links createTargetInstance emits: none unless the link prototypes
\* belong to a document of type INLINEXBRL
EmittedLinks(m) == IF doc.linkDocInline THEN SortedLinks(m.links, 1) ELSE <<>>

RECURSIVE LocOrder(_, _)
\* the locators without a preset href (those of the inline 1.0 footnote
\* links) in the order the link loop meets them
LocOrder(locs, links) ==
  IF links = <<>> THEN <<>>
  ELSE (IF Head(links).ix = 10
        THEN SortedSeq({j \in 1..Len(locs) : locs[j].role = Head(links).role})
        ELSE <<>>) \o LocOrder(locs, Tail(links))

\* newFactForOldObjId[fact]: position of the new fact made last for the fact,
\* 0 when none was made (a KeyError)
NewFactFor(emitted, f) ==
  LET ks == {k \in 1..Len(emitted) : emitted[k].fact = f}
  IN IF ks = {} THEN 0 ELSE CHOOSE k \in ks : \A j \in ks : j <= k

\* elementFragmentIdentifier of the new fact: its id, or else its position
FragmentIdentifier(f, k) ==
  IF F(f).id # "" THEN [id |-> F(f).id, pos |-> 0] ELSE [id |-> "", pos |-> k]

\* "if HREF not in linkChild.attributes: linkChild.attributes[HREF] = ..."
SetHref(H, j, emitted) ==
  IF H.locs[j].href # NoHref THEN H
  ELSE IF NewFactFor(emitted, H.locs[j].fact) = 0 THEN [H EXCEPT !.failed = TRUE]
  ELSE [H EXCEPT !.locs[j].href =
          FragmentIdentifier(H.locs[j].fact, NewFactFor(emitted, H.locs[j].fact))]

RECURSIVE ResolveHrefs(_, _, _)
\* the locators after the link loop; failed when a lookup raised
ResolveHrefs(H, order, emitted) ==
  IF order = <<>> \/ H.failed THEN H
  ELSE ResolveHrefs(SetHref(H, Head(order), emitted), Tail(order), emitted)

\* the contexts (units) of the modelXbrl sorted by objectIndex
SortedResources(ids, scope) ==
  LET idx == SortedSeq({j \in 1..Len(ids) : ids[j] \in scope})
  IN [i \in 1..Len(idx) |-> ids[idx[i]]]

Event(kind, names) == [i \in 1..Len(names) |-> [kind |-> kind, name |-> names[i]]]

\* the steps of createTargetInstance in the order it takes them
EmissionOrder(m, facts, links) ==
  <<[kind |-> "dimensionDefaults", name |-> ""]>> \o
  Event("roleRef", m.targetRoleRefs) \o
  Event("arcroleRef", m.targetArcroleRefs) \o
  Event("context", SortedResources(<<"c1", "c2", "c3">>, m.contexts)) \o
  Event("unit", SortedResources(<<"u1", "u2">>, m.units)) \o
  Event("fact", [i \in 1..Len(facts) |-> F(facts[i].fact).id]) \o
  Event("link", [i \in 1..Len(links) |-> links[i].role])

NoInstance ==
  [pass |-> 0, skipInvalid |-> FALSE, failed |-> FALSE, contexts |-> {}, units |-> {},
   facts |-> <<>>, skipped |-> 0, warnings |-> <<>>, emitted |-> <<>>]

\* the locators of loaded[p] after createTargetInstance(p, skipInvalid)
LocsAfterInstance(m, c) ==
  IF m.ixdsTarget \notin m.roots \/ c.overflow
  THEN [locs |-> m.footnoteLocs, failed |-> TRUE]
  ELSE ResolveHrefs([locs |-> m.footnoteLocs, failed |-> FALSE],
                    LocOrder(m.footnoteLocs, EmittedLinks(m)), c.emitted)

InstanceOf(p, skipInvalid, m, c, failed) ==
  IF failed
  THEN [NoInstance EXCEPT !.pass = p, !.skipInvalid = skipInvalid, !.failed = TRUE]
  ELSE [pass |-> p, skipInvalid |-> skipInvalid, failed |-> FALSE,
        contexts |-> m.contexts, units |-> m.units,
        facts |-> c.emitted,
        skipped |-> Len(c.invalidFacts),
        warnings |-> IF c.invalidFacts # <<>>
                     THEN <<Err("invalidFactsSkipped", [i \in 1..Len(c.invalidFacts) |-> <<"fact", c.invalidFacts[i]>>], <<>>)>>
                     ELSE <<>>,
        emitted |-> EmissionOrder(m, c.emitted, EmittedLinks(m))]

createTargetInstance(p, skipInvalid) ==
  InstanceOf(p, skipInvalid, loaded[p],
             createFacts(el.modelTupleFacts, loaded[p].facts, 0, skipInvalid, {}),
             LocsAfterInstance(loaded[p],
                createFacts(el.modelTupleFacts, loaded[p].facts, 0, skipInvalid, {})).failed)

\* the source locators after createTargetInstance(p, skipInvalid)
SourceLocsAfter(p, skipInvalid) ==
  LocsAfterInstance(loaded[p],
     createFacts(el.modelTupleFacts, loaded[p].facts, 0, skipInvalid, {})).locs

----------------------------------------------------------------------------
(* Iterations of the loops of the fact stage: the while loop of            *)
(* locateContinuation and the calls of checkForTupleCycle, one at a time.  *)
(* L holds chain, element and contAt of the walk, tupleNesting and the     *)
(* frames (tuple, position in its modelTupleFacts) of the calls, and what  *)
(* the loops over the items, tuples and footnotes still have to visit.     *)

NoLoop ==
  [chain |-> <<>>, element |-> NoElt, contAt |-> "", nesting |-> <<>>, frames |-> <<>>,
   starts |-> <<>>, tuples |-> <<>>, fstarts |-> <<>>]

\* the loops of one htmlElement before their first iteration
LoopStart(d) ==
  [NoLoop EXCEPT
     !.starts = SelectSeq([i \in 1..Len(ItemsOfDoc(d)) |-> <<"fact", ItemsOfDoc(d)[i]>>],
                          LAMBDA e : F(e[2]).name # ""),
     !.tuples = TupleElements,
     !.fstarts = [i \in 1..Len(FootnotesOfDoc(d)) |-> <<"footnote", FootnotesOfDoc(d)[i]>>]]

\* locateContinuation(element) up to its while loop
StartWalk(L, e) ==
  [L EXCEPT !.chain = <<e>>, !.element = e, !.contAt = EltRec(e).continuedAt]

\* the iteration with the loop going on from the same element when the
\* continuation is in the chain already
WalkIterateOn(L) ==
  IF ContinuationElements(L.contAt) = NoElt THEN [L EXCEPT !.contAt = ""]
  ELSE IF InSeq(ContinuationElements(L.contAt), L.chain) THEN L
  ELSE [L EXCEPT !.chain = Append(@, ContinuationElements(L.contAt)),
                 !.element = ContinuationElements(L.contAt),
                 !.contAt = EltRec(ContinuationElements(L.contAt)).continuedAt]

\* one iteration of "while contAt": a break leaves the loop (contAt "")
WalkIterate(L) ==
  IF ContinuationElements(L.contAt) = NoElt THEN [L EXCEPT !.contAt = ""]
  ELSE IF InSeq(ContinuationElements(L.contAt), L.chain)
  THEN [L EXCEPT !.chain = Append(@, ContinuationElements(L.contAt)), !.contAt = ""]
  ELSE [L EXCEPT !.chain = Append(@, ContinuationElements(L.contAt)),
                 !.element = ContinuationElements(L.contAt),
                 !.contAt = EltRec(ContinuationElements(L.contAt)).continuedAt]

\* checkForTupleCycle(tupleFact, [tupleFact]) called by the loop over tupleElements
StartCycleCheck(L) ==
  [L EXCEPT !.frames = <<[tuple |-> Head(L.tuples), k |-> 1]>>,
            !.nesting = <<Head(L.tuples)>>,
            !.tuples = Tail(@)]

\* one iteration of "for fact in parentTuple.modelTupleFacts" in the
\* innermost call; at the end of the list the call returns and its caller
\* pops tupleNesting
CycleIterate(L, mtf) ==
  IF L.frames[Len(L.frames)].k > Len(mtf[L.frames[Len(L.frames)].tuple])
  THEN [L EXCEPT !.frames = SubSeq(@, 1, Len(@) - 1),
                 !.nesting = SubSeq(@, 1, Len(@) - 1)]
  ELSE IF InSeq(mtf[L.frames[Len(L.frames)].tuple][L.frames[Len(L.frames)].k], L.nesting)
  THEN [L EXCEPT !.frames[Len(L.frames)].k = @ + 1]
  ELSE [L EXCEPT !.frames = Append([@ EXCEPT ![Len(L.frames)].k = @ + 1],
                                   [tuple |-> mtf[L.frames[Len(L.frames)].tuple][L.frames[Len(L.frames)].k],
                                    k |-> 1]),
                 !.nesting = Append(@, mtf[L.frames[Len(L.frames)].tuple][L.frames[Len(L.frames)].k])]

\* no walk and no cycle check is under way
LoopIdle(L) == L.contAt = "" /\ L.frames = <<>>

----------------------------------------------------------------------------

(* CorePluginContext *)

\* the plug-in modules the locator finds: the class methods each declares in
\* its __pluginInfo__, in declaration order, and the modules it imports
PluginNames == {"plugin1", "plugin2", "plugin3"}

ClassMethodsOf(name) ==
  CASE name = "plugin1" -> <<"Method", "Method1">>
    [] name = "plugin2" -> <<"Method", "Method2">>
    [] name = "plugin3" -> <<"Method2", "Method">>

ImportsOf(name) == IF name = "plugin3" THEN <<"plugin1">> ELSE <<>>

ClassNames == {"Method", "Method1", "Method2"}

\* _plugin_config: None after construction, {} after close(), or the dict
\* with the keys 'modules' and 'classes' (dicts keep insertion order)
NoConfig == [keys |-> "None", modules |-> <<>>, classes |-> <<>>]
ClearedConfig == [keys |-> "cleared", modules |-> <<>>, classes |-> <<>>]
EmptyConfig == [keys |-> "set", modules |-> <<>>, classes |-> <<>>]

\* CorePluginContext.__init__
NewContext ==
  [controller |-> "cntlr", config |-> NoConfig, changed |-> FALSE,
   infos |-> {}, methods |-> {}, base |-> FALSE, last |-> "new", prev |-> "new",
   raised |-> FALSE]

\* position of the class in the 'classes' dict, 0 when it is not a key
ClassIdx(classes, cls) ==
  IF \E i \in 1..Len(classes) : classes[i].cls = cls
  THEN CHOOSE i \in 1..Len(classes) : classes[i].cls = cls
  ELSE 0

\* "classMethods = classes.setdefault(classMethod, []); if _name and _name not
\* in classMethods: classMethods.append(_name)"
AddClassModule(classes, cls, name) ==
  IF ClassIdx(classes, cls) = 0 THEN Append(classes, [cls |-> cls, mods |-> <<name>>])
  ELSE IF name \in SeqToSet(classes[ClassIdx(classes, cls)].mods) THEN classes
  ELSE [classes EXCEPT ![ClassIdx(classes, cls)].mods = Append(@, name)]

RECURSIVE AddClassMethods(_, _, _)
AddClassMethods(classes, cms, name) ==
  IF cms = <<>> THEN classes
  ELSE AddClassMethods(AddClassModule(classes, Head(cms), name), Tail(cms), name)

\* modules[name] = info: a new key goes to the end, an old key keeps its place
SetModule(modules, name) ==
  IF name \in SeqToSet(modules) THEN modules ELSE Append(modules, name)

RECURSIVE AddPluginSubModule(_, _)
RECURSIVE AddPluginSubModules(_, _)
\* _addPluginSubModule: the classes of the module, then its imports, then the
\* module itself
AddPluginSubModule(cfg, name) ==
  [AddPluginSubModules([cfg EXCEPT !.classes = AddClassMethods(@, ClassMethodsOf(name), name)],
                       ImportsOf(name))
     EXCEPT !.modules = SetModule(@, name)]

AddPluginSubModules(cfg, names) ==
  IF names = <<>> THEN cfg
  ELSE AddPluginSubModules(AddPluginSubModule(cfg, Head(names)), Tail(names))

\* "classMethods.remove(_name); if not classMethods: del classes[classMethod]"
RemoveClassModule(classes, cls, name) ==
  IF ClassIdx(classes, cls) = 0 \/ name \notin SeqToSet(classes[ClassIdx(classes, cls)].mods)
  THEN classes
  ELSE IF Len(classes[ClassIdx(classes, cls)].mods) = 1
  THEN SelectSeq(classes, LAMBDA c : c.cls # cls)
  ELSE [classes EXCEPT ![ClassIdx(classes, cls)].mods = SelectSeq(@, LAMBDA m : m # name)]

RECURSIVE RemoveClassMethods(_, _, _)
RemoveClassMethods(classes, cms, name) ==
  IF cms = <<>> THEN classes
  ELSE RemoveClassMethods(RemoveClassModule(classes, Head(cms), name), Tail(cms), name)

RECURSIVE RemoveSubModule(_, _)
RECURSIVE RemoveSubModules(_, _)
\* _remove_plugin_module of the module info: its classes, its imports, itself
RemoveSubModule(cfg, name) ==
  [RemoveSubModules([cfg EXCEPT !.classes = RemoveClassMethods(@, ClassMethodsOf(name), name)],
                    ImportsOf(name))
     EXCEPT !.modules = SelectSeq(@, LAMBDA m : m # name)]

RemoveSubModules(cfg, names) ==
  IF names = <<>> THEN cfg
  ELSE RemoveSubModules(RemoveSubModule(cfg, Head(names)), Tail(names))

\* a call that raises leaves the context as it was; last and prev are the
\* methods called last and before that
Raised(c, op) == [c EXCEPT !.last = op, !.prev = c.last, !.raised = TRUE]

Returned(c, op) == [c EXCEPT !.last = op, !.prev = c.last, !.raised = FALSE]

\* remove_plugin_module(name): subscripting a config that is None or {} raises
remove_plugin_module(c, name) ==
  IF c.config.keys # "set" THEN Raised(c, "remove")
  ELSE IF name \notin SeqToSet(c.config.modules) THEN Returned(c, "remove")
  ELSE Returned([c EXCEPT !.config = RemoveSubModule(@, name), !.changed = TRUE], "remove")

\* add_plugin_module(name): None for a name the locator does not know,
\* otherwise the prior entry is removed and the module and its imports added
add_plugin_module(c, name) ==
  IF name \notin PluginNames THEN Returned(c, "add")
  ELSE IF c.config.keys # "set" THEN Raised(c, "add")
  ELSE Returned([c EXCEPT !.config = AddPluginSubModule(remove_plugin_module(c, name).config, name),
                          !.changed = TRUE], "add")

\* reset() clearing the plugin config as well
reset_all(c) ==
  Returned([c EXCEPT !.config = ClearedConfig, !.infos = {}, !.methods = {}], "reset")

\* reset()
reset(c) ==
  Returned([c EXCEPT !.infos = {}, !.methods = {}], "reset")

\* close(): _plugin_config.clear() raises on a context that was never
\* initialised
close(c) ==
  IF c.config.keys = "None" THEN Raised(c, "close")
  ELSE Returned([c EXCEPT !.config = ClearedConfig, !.infos = {}, !.methods = {}], "close")

\* the test of init() taken as "_plugin_config is None"
NewConfigIfNone(cfg) == IF cfg.keys = "None" THEN EmptyConfig ELSE cfg

\* "if not self._plugin_config: self._plugin_config = {'modules': {}, 'classes': {}}"
NewConfigIfEmpty(cfg) == IF cfg.keys # "set" THEN EmptyConfig ELSE cfg

\* the plugins.json file: absent, truncated, or an ordered plugin config
NoFile == [state |-> "absent", config |-> NoConfig]
TruncatedFile == [state |-> "truncated", config |-> NoConfig]

\* json.load of plugins.json; the module files are as they were when the
\* config was saved, so that _freshen_module_infos finds nothing to refresh
LoadedConfig(c, file, loadPluginConfig) ==
  IF loadPluginConfig /\ file.state = "saved" THEN file.config ELSE c.config

\* init(loadPluginConfig)
init(c, file, loadPluginConfig) ==
  Returned([c EXCEPT !.changed = FALSE, !.base = TRUE,
                     !.config = NewConfigIfEmpty(LoadedConfig(c, file, loadPluginConfig)),
                     !.infos = {}, !.methods = {}],
           IF loadPluginConfig THEN "initLoad" ELSE "init")

\* sorted(...items()) of the names used here
NameOrder == <<"Method", "Method1", "Method2", "plugin1", "plugin2", "plugin3">>

NameRank(n) == CHOOSE k \in 1..Len(NameOrder) : NameOrder[k] = n

SortedNames(names) ==
  LET idx == SortedSeq({NameRank(n) : n \in names})
  IN [i \in 1..Len(idx) |-> NameOrder[idx[i]]]

\* _ordered_plugin_config: modules and classes sorted by key
OrderedPluginConfig(cfg) ==
  [keys |-> "set",
   modules |-> SortedNames(SeqToSet(cfg.modules)),
   classes |-> [i \in 1..Len(cfg.classes) |->
                  cfg.classes[ClassIdx(cfg.classes,
                     SortedNames({cfg.classes[j].cls : j \in 1..Len(cfg.classes)})[i])]]]

\* whether save(cntlr) writes: the config changed and the controller has a
\* file system with persistent configuration
Saves(c, persistent) == c.changed /\ persistent

\* save(cntlr): the file is opened for writing before the config is ordered,
\* which raises on a config that close() has cleared
save(c, persistent) ==
  IF ~Saves(c, persistent) THEN Returned(c, "save")
  ELSE IF c.config.keys # "set" THEN Raised(c, "save")
  ELSE Returned([c EXCEPT !.changed = FALSE], "save")

FileAfterSave(c, file, persistent) ==
  IF ~Saves(c, persistent) THEN file
  ELSE IF c.config.keys # "set" THEN TruncatedFile
  ELSE [state |-> "saved", config |-> OrderedPluginConfig(c.config)]

\* the modules plugin_class_methods(className) goes through
ClassModules(c, className) ==
  IF ClassIdx(c.config.classes, className) = 0 THEN <<>>
  ELSE SelectSeq(c.config.classes[ClassIdx(c.config.classes, className)].mods,
                 LAMBDA m : m \in SeqToSet(c.config.modules))

RECURSIVE ImportClosure(_, _)
\* a module with the modules it imports, which _load_module loads with it
ImportClosure(names, n) ==
  IF n = 0 THEN names
  ELSE ImportClosure(names \cup UNION {SeqToSet(ImportsOf(m)) : m \in names}, n - 1)

RECURSIVE LoadedConfigOf(_, _)
\* _load_module writes the loaded module and the classes of its functions
\* into the plugin config
LoadedConfigOf(cfg, names) ==
  IF names = <<>> THEN cfg
  ELSE LoadedConfigOf(
         [cfg EXCEPT !.modules = SetModule(@, Head(names)),
                     !.classes = AddClassMethods(@, ClassMethodsOf(Head(names)), Head(names))],
         Tail(names))

\* the modules _load_module is called for: those of the class that are not
\* loaded yet, each with its imports
ToLoad(c, className) ==
  ImportClosure({m \in SeqToSet(ClassModules(c, className)) : m \notin c.infos}, Cardinality(PluginNames))

\* plugin_class_methods(className), iterated to its end; loads tells whether
\* the module files can be imported
plugin_class_methods(c, className, loads) ==
  IF c.config.keys # "set" \/ \E e \in c.methods : e.cls = className
  THEN Returned(c, "methods")
  ELSE IF ~loads \/ ToLoad(c, className) = {}
  THEN Returned([c EXCEPT !.methods = @ \cup
                    {[cls |-> className,
                      mods |-> SelectSeq(ClassModules(c, className), LAMBDA m : m \in c.infos)]}],
                "methods")
  ELSE Returned([c EXCEPT
                    !.infos = @ \cup ToLoad(c, className),
                    !.config = LoadedConfigOf(@, SortedNames(ToLoad(c, className))),
                    !.changed = TRUE,
                    !.methods = @ \cup
                      {[cls |-> className,
                        mods |-> SelectSeq(ClassModules(c, className),
                                   LAMBDA m : className \in SeqToSet(ClassMethodsOf(m)))]}],
                "methods")

\* what the controller logs when the modules of the class cannot be imported
LoadErrors(c, className, loads) ==
  IF c.config.keys # "set" \/ (\E e \in c.methods : e.cls = className) \/ loads THEN {}
  ELSE ToLoad(c, className)

\* the plugin contexts of one controller after their construction
Contexts == 1..2

NewPlugins ==
  [ctx |-> [i \in Contexts |-> NewContext], file |-> NoFile, log |-> {}, actor |-> 0, nops |-> 0]

----------------------------------------------------------------------------
(* State machine *)

NewModelXbrl(t, sup) ==
  [ixdsTarget |-> t, supplemental |-> sup, facts |-> <<>>, factsInInstance |-> {},
   contexts |-> {}, units |-> {}, roots |-> {}, raised |-> FALSE, errors |-> <<>>, warnings |-> <<>>,
   baseSets |-> {}, locs |-> {}, resources |-> {}, arcs |-> {}, targetRelationships |-> {},
   links |-> <<>>, footnoteLocs |-> <<>>, targetRoleRefs |-> <<>>, targetArcroleRefs |-> <<>>]

NewLocals ==
  [continuationReferences |-> {}, factTargetIDs |-> {}, contextRefs |-> {}, unitRefs |-> {},
   assignUnusedContextsUnits |-> FALSE, loop |-> NoLoop]

InitState ==
  /\ el = [target |-> [i \in 1..Len(doc.facts) |-> doc.facts[i].target],
           contElt |-> [e \in AllElts |-> NoElt],
           unordered |-> [i \in 1..Len(doc.facts) |-> <<>>],
           modelTupleFacts |-> [i \in 1..Len(doc.facts) |-> <<>>],
           ixFactParent |-> [i \in 1..Len(doc.facts) |-> NoElt]]
  /\ mx = NewModelXbrl(doc.override, FALSE)
  /\ lc = NewLocals
  /\ pc = "select"
  /\ htmlIdx = 1
  /\ queue = <<>>
  /\ loaded = <<>>
  /\ instance = NoInstance
  /\ pl = NewPlugins

\* selectTargetDocument queueing every target, the selected one included
SelectTargetDocumentQueueAll ==
  /\ pc = "select"
  /\ IF mx.ixdsTarget = NoOverride
     THEN LET targets == IxdsTargets
          IN /\ mx' = [mx EXCEPT !.ixdsTarget = IF Len(targets) = 0 THEN DEFAULT_TARGET ELSE targets[1]]
             /\ queue' = IF Len(targets) > 1 THEN targets ELSE <<>>
     ELSE UNCHANGED <<mx, queue>>
  /\ pc' = "index"
  /\ UNCHANGED <<pl, doc, el, lc, htmlIdx, loaded, instance>>

\* selectTargetDocument: the primary pass without a target override picks the
\* first of the sorted targets and queues the others
SetState(R) == el' = R.el /\ mx' = R.mx /\ lc' = R.lc

SelectTargetDocument ==
  /\ pc = "select"
  /\ IF mx.ixdsTarget = NoOverride
     THEN LET targets == IxdsTargets
          IN /\ mx' = [mx EXCEPT !.ixdsTarget = IF Len(targets) = 0 THEN DEFAULT_TARGET ELSE targets[1]]
             /\ queue' = IF Len(targets) > 1 THEN Tail(targets) ELSE <<>>
     ELSE UNCHANGED <<mx, queue>>
  /\ pc' = "index"
  /\ UNCHANGED <<pl, doc, el, lc, htmlIdx, loaded, instance>>

\* the index loops at the head of ixdsDiscover
IndexElements ==
  /\ pc = "index"
  /\ el' = [el EXCEPT !.unordered = [i \in 1..Len(doc.facts) |-> <<>>]]
  /\ lc' = [continuationReferences |-> {},
            factTargetIDs |-> {el.target[i] : i \in {j \in FactIdx : F(j).kind = "tuple"}},
            contextRefs |-> FactTargetContextRefs(el.target, mx.ixdsTarget),
            unitRefs |-> FactTargetUnitRefs(el.target, mx.ixdsTarget),
            assignUnusedContextsUnits |-> assignUnusedContextsUnits(mx, queue),
            loop |-> NoLoop]
  /\ mx' = [mx EXCEPT !.errors = @ \o
              [k \in 1..Len(DuplicateTupleIDs) |->
                 Err("tupleIdDuplication", <<<<"fact", DuplicateTupleIDs[k]>>>>, <<F(DuplicateTupleIDs[k]).tupleID>>)]]
  /\ pc' = "resources"
  /\ UNCHANGED <<pl, doc, htmlIdx, queue, loaded, instance>>

\* the errors logged for the targets whose root element makeelement fails to create
RootElementErrors(targets) ==
  [k \in 1..Len(targets) |-> Err("Exception", <<>>, <<targets[k]>>)]

\* discovery of the contexts and units used by the target, and the root elements
DiscoverResources ==
  /\ pc = "resources"
  /\ mx' = [mx EXCEPT
        !.contexts = DiscoveredResources(doc.contexts, lc.contextRefs, AllContextRefs,
                                         lc.assignUnusedContextsUnits),
        !.units = DiscoveredResources(doc.units, lc.unitRefs, AllUnitRefs,
                                      lc.assignUnusedContextsUnits),
        !.targetRoleRefs = UsedRefs(doc.roleRefs, TargetRoleUris(el.target, mx.ixdsTarget)),
        !.targetArcroleRefs = UsedRefs(doc.arcroleRefs, TargetArcroleUris(el.target, mx.ixdsTarget)),
        !.roots = RootTargets \ doc.rootFail,
        !.errors = @ \o RootElementErrors(SortedSeq(RootTargets \cap doc.rootFail))]
  /\ pc' = "facts"
  /\ htmlIdx' = 1
  /\ UNCHANGED <<pl, doc, el, lc, queue, loaded, instance>>

\* one iteration of the loop over ixdsHtmlElements that locates the facts
DiscoverFacts ==
  /\ pc = "facts"
  /\ SetState(DiscoverHtmlElement([el |-> el, mx |-> mx, lc |-> lc], htmlIdx))
  /\ htmlIdx' = htmlIdx + 1
  /\ pc' = IF mx'.raised THEN "aborted"
           ELSE IF htmlIdx = doc.ndocs THEN "references" ELSE "facts"
  /\ UNCHANGED <<pl, doc, queue, loaded, instance>>

ValidateReferences ==
  /\ pc = "references"
  /\ mx' = ReferenceErrors([el |-> el, mx |-> mx, lc |-> lc]).mx
  /\ pc' = "relationships"
  /\ UNCHANGED <<pl, doc, el, lc, htmlIdx, queue, loaded, instance>>

BuildRelationships ==
  /\ pc = "relationships"
  /\ SetState(RelationshipsLoop(Footnotes10Loop([el |-> el, mx |-> mx, lc |-> lc], 1), 1))
  /\ pc' = IF mx'.raised THEN "aborted" ELSE "continuations"
  /\ UNCHANGED <<pl, doc, htmlIdx, queue, loaded, instance>>

CheckContinuations ==
  /\ pc = "continuations"
  /\ mx' = ContinuationReferenceErrors([el |-> el, mx |-> mx, lc |-> lc]).mx
  /\ pc' = "completed"
  /\ UNCHANGED <<pl, doc, el, lc, htmlIdx, queue, loaded, instance>>

\* targetDiscoveryCompleted: the primary pass loads the queued targets one
\* after the other, each as a supplemental modelXbrl over the same elements
TargetDiscoveryCompleted ==
  /\ pc = "completed"
  /\ loaded' = Append(loaded, mx)
  /\ IF queue # <<>>
     THEN /\ mx' = NewModelXbrl(Head(queue), TRUE)
          /\ queue' = Tail(queue)
          /\ pc' = "select"
     ELSE /\ pc' = "done"
          /\ UNCHANGED <<mx, queue>>
  /\ lc' = NewLocals
  /\ UNCHANGED <<pl, doc, el, htmlIdx, instance>>

\* a caller saves the target instance of a loaded modelXbrl
Materialize ==
  /\ pc = "done"
  /\ \E p \in 1..Len(loaded), skipInvalid \in BOOLEAN :
        /\ instance' = createTargetInstance(p, skipInvalid)
        /\ loaded' = [loaded EXCEPT ![p].footnoteLocs = SourceLocsAfter(p, skipInvalid)]
  /\ UNCHANGED <<pl, doc, el, mx, lc, pc, htmlIdx, queue>>

Next ==
  \/ SelectTargetDocument
  \/ IndexElements
  \/ DiscoverResources
  \/ DiscoverFacts
  \/ ValidateReferences
  \/ BuildRelationships
  \/ CheckContinuations
  \/ TargetDiscoveryCompleted
  \/ Materialize

----------------------------------------------------------------------------
(* The fact stage with the iterations of its loops as steps *)

\* the fact loops of one htmlElement, their iterations still to be taken
LocateFactsOfDocument ==
  /\ pc = "facts"
  /\ el' = DiscoverHtmlElement([el |-> el, mx |-> mx, lc |-> lc], htmlIdx).el
  /\ mx' = DiscoverHtmlElement([el |-> el, mx |-> mx, lc |-> lc], htmlIdx).mx
  /\ lc' = [DiscoverHtmlElement([el |-> el, mx |-> mx, lc |-> lc], htmlIdx).lc
              EXCEPT !.loop = LoopStart(htmlIdx)]
  /\ pc' = IF mx'.raised THEN "aborted" ELSE "loops"
  /\ UNCHANGED <<pl, doc, htmlIdx, queue, loaded, instance>>

\* the loop over the item facts reaches its next fact
NextWalk ==
  /\ pc = "loops" /\ LoopIdle(lc.loop) /\ lc.loop.starts # <<>>
  /\ lc' = [lc EXCEPT !.loop = StartWalk([@ EXCEPT !.starts = Tail(@)], Head(lc.loop.starts))]
  /\ UNCHANGED <<pl, doc, el, mx, pc, htmlIdx, queue, loaded, instance>>

WalkIteration ==
  /\ pc = "loops" /\ lc.loop.contAt # ""
  /\ lc' = [lc EXCEPT !.loop = WalkIterate(@)]
  /\ UNCHANGED <<pl, doc, el, mx, pc, htmlIdx, queue, loaded, instance>>

\* the loop over tupleElements reaches its next tuple
NextCycleCheck ==
  /\ pc = "loops" /\ LoopIdle(lc.loop) /\ lc.loop.starts = <<>> /\ lc.loop.tuples # <<>>
  /\ lc' = [lc EXCEPT !.loop = StartCycleCheck(@)]
  /\ UNCHANGED <<pl, doc, el, mx, pc, htmlIdx, queue, loaded, instance>>

CycleIteration ==
  /\ pc = "loops" /\ lc.loop.frames # <<>>
  /\ lc' = [lc EXCEPT !.loop = CycleIterate(@, el.modelTupleFacts)]
  /\ UNCHANGED <<pl, doc, el, mx, pc, htmlIdx, queue, loaded, instance>>

\* the loop over the footnotes reaches its next footnote
NextFootnoteWalk ==
  /\ pc = "loops" /\ LoopIdle(lc.loop) /\ lc.loop.starts = <<>> /\ lc.loop.tuples = <<>>
  /\ lc.loop.fstarts # <<>>
  /\ lc' = [lc EXCEPT !.loop = StartWalk([@ EXCEPT !.fstarts = Tail(@)], Head(lc.loop.fstarts))]
  /\ UNCHANGED <<pl, doc, el, mx, pc, htmlIdx, queue, loaded, instance>>

\* the loops of the htmlElement have ended
LoopsEnd ==
  /\ pc = "loops" /\ LoopIdle(lc.loop)
  /\ lc.loop.starts = <<>> /\ lc.loop.tuples = <<>> /\ lc.loop.fstarts = <<>>
  /\ lc' = [lc EXCEPT !.loop = NoLoop]
  /\ htmlIdx' = htmlIdx + 1
  /\ pc' = IF htmlIdx = doc.ndocs THEN "references" ELSE "facts"
  /\ UNCHANGED <<pl, doc, el, mx, queue, loaded, instance>>

\* the steps other than LocateFactsOfDocument
OtherIterations ==
  \/ SelectTargetDocument
  \/ IndexElements
  \/ DiscoverResources
  \/ NextWalk
  \/ WalkIteration
  \/ NextCycleCheck
  \/ CycleIteration
  \/ NextFootnoteWalk
  \/ LoopsEnd
  \/ ValidateReferences
  \/ BuildRelationships
  \/ CheckContinuations
  \/ TargetDiscoveryCompleted

\* weak fairness of LocateFactsOfDocument, written out: the action is
\* enabled exactly where pc = "facts" and every step of it leaves "facts"
LocateFactsTaken == []<>(pc # "facts")

NextIterations ==
  \/ SelectTargetDocument
  \/ IndexElements
  \/ DiscoverResources
  \/ LocateFactsOfDocument
  \/ NextWalk
  \/ WalkIteration
  \/ NextCycleCheck
  \/ CycleIteration
  \/ NextFootnoteWalk
  \/ LoopsEnd
  \/ ValidateReferences
  \/ BuildRelationships
  \/ CheckContinuations
  \/ TargetDiscoveryCompleted

----------------------------------------------------------------------------

(* Explored document sets *)

BaseFact ==
  [kind |-> "item", name |-> "n", id |-> "", tupleID |-> "", target |-> DEFAULT_TARGET,
   tupleRef |-> "", order |-> 0, parent |-> NoElt, contextRef |-> "c1", unitRef |-> "",
   continuedAt |-> "", value |-> "v", xValid |-> VALID, footnoteRefs |-> {}, doc |-> 1]

BaseTuple == [BaseFact EXCEPT !.kind = "tuple", !.contextRef = "", !.value = ""]

BaseContinuation == [id |-> "", continuedAt |-> "", parent |-> NoElt, doc |-> 1]

BaseFootnote == [id |-> "", continuedAt |-> "", parent |-> NoElt, doc |-> 1]

BaseDoc ==
  [ndocs |-> 1, references |-> <<DEFAULT_TARGET>>, override |-> NoOverride,
   facts |-> <<>>, conts |-> <<>>, footnotes |-> <<>>, rels |-> <<>>,
   contexts |-> {"c1", "c2", "c3"}, units |-> {"u1", "u2"}, rootFail |-> {},
   footnotes10 |-> <<>>, roleRefs |-> <<>>, arcroleRefs |-> <<>>, linkDocInline |-> TRUE]

Rel(from, to, role) ==
  [fromRefs |-> from, toRefs |-> to, linkRole |-> role, arcrole |-> "fact-footnote", doc |-> 1]

FactIds == <<"a", "b", "c", "d", "e", "f">>
ContextIds == <<"c1", "c2", "c1", "c2", "c1", "c2">>
UnitIds == <<"", "u1", "", "u1", "", "u1">>

\* facts a, b, c, ... with the given targets; when nested, a is a tuple and b
\* its structural child
RelFacts(tg, nested) ==
  [i \in 1..MaxRelFacts |->
     IF nested /\ i = 1
     THEN [BaseTuple EXCEPT !.id = FactIds[i], !.tupleID = "t1", !.target = tg[i]]
     ELSE [BaseFact EXCEPT !.id = FactIds[i], !.target = tg[i],
                           !.contextRef = ContextIds[i], !.unitRef = UnitIds[i],
                           !.parent = IF nested /\ i = 2 THEN <<"fact", 1>> ELSE NoElt,
                           !.order = IF nested /\ i = 2 THEN 1 ELSE 0]]

\* declared targets with the target override of the caller
RefOverrides ==
  {<<<<0>>, NoOverride>>, <<<<1>>, NoOverride>>, <<<<0, 1>>, NoOverride>>,
   <<<<2, 1>>, NoOverride>>, <<<<0, 1>>, 0>>, <<<<0, 1>>, 1>>, <<<<1>>, 2>>, <<<<1>>, 0>>}

RelChoices ==
  {<<>>,
   <<Rel(<<"a">>, <<"b">>, "L1")>>,
   <<Rel(<<"b">>, <<"a">>, "L1")>>,
   <<Rel(<<"a", "b">>, <<"c">>, "L1")>>,
   <<Rel(<<"a">>, <<"a">>, "L1")>>,
   <<Rel(<<"a">>, <<"b", "n1">>, "L1")>>,
   <<Rel(<<"a">>, <<"n1">>, "L2")>>,
   <<Rel(<<"b">>, <<"zz", "c">>, "L1")>>,
   <<Rel(<<"a">>, <<"c">>, "L1"), Rel(<<"b">>, <<"c">>, "L1")>>,
   <<Rel(<<"a">>, <<"b">>, "L1"), Rel(<<"c">>, <<"a">>, "L2")>>}

TargetDocs ==
  {[BaseDoc EXCEPT !.references = ro[1], !.override = ro[2],
                   !.facts = RelFacts(tg, nested),
                   !.footnotes = <<[BaseFootnote EXCEPT !.id = "n1"]>>,
                   !.rels = rs] :
     ro \in RefOverrides, tg \in [1..MaxRelFacts -> {0, 1, 2}], nested \in BOOLEAN, rs \in RelChoices}

InitTargets == doc \in TargetDocs /\ InitState

SpecTargets == InitTargets /\ [][Next]_vars

\* declared targets, target override and the targets whose root element
\* cannot be created
RootChoices ==
  {<<<<0, 1>>, NoOverride, {1}>>, <<<<0, 1>>, NoOverride, {0}>>, <<<<0, 1>>, NoOverride, {0, 1}>>,
   <<<<1>>, NoOverride, {1}>>, <<<<1>>, NoOverride, {0}>>, <<<<0, 1>>, 1, {0}>>}

RootDocs ==
  {[BaseDoc EXCEPT !.references = rc[1], !.override = rc[2], !.rootFail = rc[3],
                   !.facts = RelFacts(tg, nested),
                   !.footnotes = <<[BaseFootnote EXCEPT !.id = "n1"]>>,
                   !.rels = rs] :
     rc \in RootChoices, tg \in [1..MaxRelFacts -> {0, 1}], nested \in BOOLEAN,
     rs \in {<<>>, <<Rel(<<"a">>, <<"b">>, "L1")>>, <<Rel(<<"a">>, <<"c", "n1">>, "L1")>>,
             <<Rel(<<"b">>, <<"c">>, "L1")>>}}

InitRoots == doc \in RootDocs /\ InitState

SpecRoots == InitRoots /\ [][Next]_vars

TupleIds == <<"t1", "t2", "t3", "t4", "t5">>

\* tupleRef values: none, or the tupleID of one of the tuples
TupleRefs == {""} \cup {TupleIds[i] : i \in 1..MaxTuples}

\* tuples t1, t2, ... that name their parent by tupleRef; shape 1 is one
\* document with one target, shape 2 two documents and a second target
TupleFacts(refs, orders, shape) ==
  [i \in 1..MaxTuples |->
     [BaseTuple EXCEPT !.name = TupleIds[i], !.tupleID = TupleIds[i],
                       !.tupleRef = refs[i], !.order = orders[i],
                       !.target = IF shape = 2 /\ i = 1 THEN 1 ELSE DEFAULT_TARGET,
                       !.doc = IF shape = 2 /\ i = MaxTuples THEN 2 ELSE 1]]

TupleOrders == {o \in [1..MaxTuples -> {0, 1, 2}] : \A i \in 2..MaxTuples : o[i] # 0}

TupleDocs ==
  {[BaseDoc EXCEPT !.ndocs = shape,
                   !.references = IF shape = 2 THEN <<DEFAULT_TARGET, 1>> ELSE <<DEFAULT_TARGET>>,
                   !.facts = TupleFacts(refs, orders, shape)] :
     refs \in [1..MaxTuples -> TupleRefs], orders \in TupleOrders, shape \in {1, 2}}

InitTuples == doc \in TupleDocs /\ InitState

SpecTuples == InitTuples /\ [][Next]_vars

ContIds == <<"k1", "k2", "k3", "k4">>

\* continuedAt values: none, the id of a continuation, or an id nothing carries
ContinuedAts == {"", "zz"} \cup {ContIds[i] : i \in 1..MaxConts}

\* two facts and a footnote that start chains over the continuations k1, k2, ...
\* variant 1: plain; 2: the footnote continues at k1; 3: fact b has no qname;
\* 4: continuation k1 is nested in fact a; 5: the footnote continues at an id
\* nothing carries
ContinuationDoc(fa, fb, ks, variant, refs) ==
  [BaseDoc EXCEPT
     !.references = refs,
     !.facts = <<[BaseFact EXCEPT !.id = "a", !.continuedAt = fa],
                 [BaseFact EXCEPT !.id = "b", !.continuedAt = fb,
                                  !.name = IF variant = 3 THEN "" ELSE "n",
                                  !.target = refs[Len(refs)]]>>,
     !.conts = [i \in 1..MaxConts |->
                  [BaseContinuation EXCEPT !.id = ContIds[i], !.continuedAt = ks[i],
                                           !.parent = IF variant = 4 /\ i = 1 THEN <<"fact", 1>> ELSE NoElt]],
     !.footnotes = <<[BaseFootnote EXCEPT !.id = "n1",
                                          !.continuedAt = IF variant = 2 THEN "k1"
                                                           ELSE IF variant = 5 THEN "zz" ELSE ""]>>]

ContinuationDocs ==
  {ContinuationDoc(fa, fb, ks, variant, refs) :
     fa \in ContinuedAts, fb \in ContinuedAts, ks \in [1..MaxConts -> ContinuedAts],
     variant \in 1..5, refs \in {<<DEFAULT_TARGET>>, <<DEFAULT_TARGET, 1>>}}

InitContinuations == doc \in ContinuationDocs /\ InitState

SpecContinuations == InitContinuations /\ [][Next]_vars

\* which kind of element repeats an id: the second tuple shares its tupleID
\* with the first, the second item its id with the first, the second
\* continuation or the second footnote its id with the first; or none does
DuplicateKinds == {"none", "tuple", "fact", "continuation", "footnote"}

\* tuples t and u, item a (member of the tuple with tupleID t1) and item b
\* (continued at k1), continuations k1 and k2, footnotes n1 and n2
DuplicateDoc(dup, tg, rs, refs) ==
  [BaseDoc EXCEPT
     !.references = refs,
     !.facts = <<[BaseTuple EXCEPT !.id = "t", !.tupleID = "t1", !.name = "t"],
                 [BaseTuple EXCEPT !.id = "u", !.name = "u",
                                   !.tupleID = IF dup = "tuple" THEN "t1" ELSE "t2"],
                 [BaseFact EXCEPT !.id = "a", !.tupleRef = "t1", !.order = 1, !.target = tg[1]],
                 [BaseFact EXCEPT !.id = IF dup = "fact" THEN "a" ELSE "b",
                                  !.contextRef = "c2", !.continuedAt = "k1", !.target = tg[2]]>>,
     !.conts = <<[BaseContinuation EXCEPT !.id = "k1"],
                 [BaseContinuation EXCEPT !.id = IF dup = "continuation" THEN "k1" ELSE "k2"]>>,
     !.footnotes = <<[BaseFootnote EXCEPT !.id = "n1"],
                     [BaseFootnote EXCEPT !.id = IF dup = "footnote" THEN "n1" ELSE "n2"]>>,
     !.rels = rs]

DuplicateDocs ==
  {DuplicateDoc(dup, tg, rs, refs) :
     dup \in DuplicateKinds, tg \in [1..2 -> {0, 1}],
     rs \in {<<>>, <<Rel(<<"a">>, <<"n1">>, "L1")>>, <<Rel(<<"t">>, <<"a">>, "L1")>>},
     refs \in {<<DEFAULT_TARGET>>, <<DEFAULT_TARGET, 1>>}}

InitDuplicates == doc \in DuplicateDocs /\ InitState

SpecDuplicates == InitDuplicates /\ [][Next]_vars

\* which facts name the inline 1.0 footnotes f1 and f2 in their footnoteRefs
FootnoteRefChoices ==
  {<<{}, {}, {}>>, <<{}, {"f1"}, {}>>, <<{}, {"f1"}, {"f1", "f2"}>>, <<{"f2"}, {}, {"f1"}>>}

\* tuple a with its child b and item c (without an id, of the last declared
\* target), with their validation states xv and footnoteRefs fr; inline 1.0
\* footnotes f1 and f2, inline 1.1 footnote n1 and the relationships rs
InstanceDoc(xv, fr, rs, inl, refs) ==
  [BaseDoc EXCEPT
     !.references = refs,
     !.facts = <<[BaseTuple EXCEPT !.id = "a", !.tupleID = "t1", !.xValid = xv[1], !.footnoteRefs = fr[1]],
                 [BaseFact EXCEPT !.id = "b", !.parent = <<"fact", 1>>, !.order = 1,
                                  !.contextRef = "c2", !.unitRef = "u1",
                                  !.xValid = xv[2], !.footnoteRefs = fr[2]],
                 [BaseFact EXCEPT !.xValid = xv[3], !.footnoteRefs = fr[3],
                                  !.target = refs[Len(refs)]]>>,
     !.footnotes = <<[BaseFootnote EXCEPT !.id = "n1"]>>,
     !.footnotes10 = <<[id |-> "f1", linkRole |-> "L2", doc |-> 1],
                       [id |-> "f2", linkRole |-> "L1", doc |-> 1]>>,
     !.rels = rs,
     !.roleRefs = <<"L2", "L1">>,
     !.arcroleRefs = <<"fact-footnote">>,
     !.linkDocInline = inl]

InstanceDocs ==
  {InstanceDoc(xv, fr, rs, inl, refs) :
     xv \in [1..3 -> {NONE - 1, NONE, VALID}], fr \in FootnoteRefChoices,
     rs \in {<<>>, <<Rel(<<"b">>, <<"n1">>, "L2"), Rel(<<"a">>, <<"n1">>, "L1")>>},
     inl \in BOOLEAN, refs \in {<<DEFAULT_TARGET>>, <<DEFAULT_TARGET, 1>>}}

InitInstances == doc \in InstanceDocs /\ InitState

SpecInstances == InitInstances /\ [][Next]_vars

----------------------------------------------------------------------------
(* Documents with cyclic references *)

\* tupleRef of the tuples t1 and t2: none, t2 in t1, each in the other, t1
\* in itself
CyclicTupleRefs == {<<"", "">>, <<"", "t1">>, <<"t2", "t1">>, <<"t1", "">>}

\* tuples t1 and t2, item a continued at k1, the continuations k1, k2, ...
\* continued as ks says, and a footnote continued at the last of them
CyclicDoc(trefs, ks, refs) ==
  [BaseDoc EXCEPT
     !.references = refs,
     !.facts = <<[BaseTuple EXCEPT !.name = "t1", !.tupleID = "t1", !.tupleRef = trefs[1], !.order = 1],
                 [BaseTuple EXCEPT !.name = "t2", !.tupleID = "t2", !.tupleRef = trefs[2], !.order = 1],
                 [BaseFact EXCEPT !.id = "a", !.continuedAt = "k1", !.target = refs[Len(refs)]]>>,
     !.conts = [i \in 1..MaxConts |->
                  [BaseContinuation EXCEPT !.id = ContIds[i], !.continuedAt = ks[i]]],
     !.footnotes = <<[BaseFootnote EXCEPT !.id = "n1", !.continuedAt = ContIds[MaxConts]]>>]

CyclicDocs ==
  {CyclicDoc(trefs, ks, refs) :
     trefs \in CyclicTupleRefs, ks \in [1..MaxConts -> ContinuedAts],
     refs \in {<<DEFAULT_TARGET>>, <<DEFAULT_TARGET, 1>>}}

InitIterations == doc \in CyclicDocs /\ InitState

\* the interpreter runs the one thread on until ixdsDiscover returns or
\* raises: a step that can be taken is taken
SpecIterations ==
  InitIterations /\ [][NextIterations]_vars /\ WF_vars(OtherIterations) /\ LocateFactsTaken

----------------------------------------------------------------------------

(* Tuple assembly documents *)

\* text values of the members: " v " differs from "v" in white space only
MemberValues == {"v", " v ", "w"}

\* where item d is placed: at the top, directly in tuple a, in item b (a
\* member of a), or in the continuation k1 (which lies in a)
MemberParents == {NoElt, <<"fact", 1>>, <<"fact", 2>>, <<"continuation", 1>>}

\* tuple a with the members b and c, item d, and item e at the top, whose
\* continuation k1 lies in a
AssemblyDoc(ob, oc, od, vc, ub, uc, pd) ==
  [BaseDoc EXCEPT
     !.facts = <<[BaseTuple EXCEPT !.name = "t1", !.tupleID = "t1"],
                 [BaseFact EXCEPT !.parent = <<"fact", 1>>, !.order = ob, !.unitRef = ub],
                 [BaseFact EXCEPT !.parent = <<"fact", 1>>, !.order = oc, !.unitRef = uc,
                                  !.value = vc],
                 [BaseFact EXCEPT !.parent = pd, !.order = od],
                 [BaseFact EXCEPT !.continuedAt = "k1"]>>,
     !.conts = <<[BaseContinuation EXCEPT !.id = "k1", !.parent = <<"fact", 1>>]>>]

AssemblyDocs ==
  {AssemblyDoc(ob, oc, od, vc, ub, uc, pd) :
     ob \in {1, 2}, oc \in {1, 2}, od \in {1, 3}, vc \in MemberValues,
     ub \in {"", "u1"}, uc \in {"", "u1"}, pd \in MemberParents}

InitAssembly == doc \in AssemblyDocs /\ InitState

SpecAssembly == InitAssembly /\ [][Next]_vars

----------------------------------------------------------------------------

(* Plugin contexts of one controller *)

\* the contexts keeping their plugin config in one registry shared by all
CalledShared(i, c) ==
  [pl EXCEPT !.ctx = [j \in Contexts |-> IF j = i THEN c ELSE [pl.ctx[j] EXCEPT !.config = c.config]],
             !.actor = i, !.nops = @ + 1]

\* the call of a method of context i has returned (or raised) leaving c
Called(i, c) ==
  [pl EXCEPT !.ctx[i] = c, !.actor = i, !.nops = @ + 1]

PluginInit ==
  /\ pl.nops < MaxOps
  /\ \E i \in Contexts, loadPluginConfig \in BOOLEAN :
        pl' = Called(i, init(pl.ctx[i], pl.file, loadPluginConfig))
  /\ UNCHANGED <<doc, el, mx, lc, pc, htmlIdx, queue, loaded, instance>>

PluginReset ==
  /\ pl.nops < MaxOps
  /\ \E i \in Contexts : pl' = Called(i, reset(pl.ctx[i]))
  /\ UNCHANGED <<doc, el, mx, lc, pc, htmlIdx, queue, loaded, instance>>

PluginClose ==
  /\ pl.nops < MaxOps
  /\ \E i \in Contexts : pl' = Called(i, close(pl.ctx[i]))
  /\ UNCHANGED <<doc, el, mx, lc, pc, htmlIdx, queue, loaded, instance>>

PluginSave ==
  /\ pl.nops < MaxOps
  /\ \E i \in Contexts, persistent \in BOOLEAN :
        pl' = [Called(i, save(pl.ctx[i], persistent))
                 EXCEPT !.file = FileAfterSave(pl.ctx[i], pl.file, persistent)]
  /\ UNCHANGED <<doc, el, mx, lc, pc, htmlIdx, queue, loaded, instance>>

PluginAdd ==
  /\ pl.nops < MaxOps
  /\ \E i \in Contexts, name \in PluginNames \cup {"unknown"} :
        pl' = Called(i, add_plugin_module(pl.ctx[i], name))
  /\ UNCHANGED <<doc, el, mx, lc, pc, htmlIdx, queue, loaded, instance>>

PluginRemove ==
  /\ pl.nops < MaxOps
  /\ \E i \in Contexts, name \in PluginNames :
        pl' = Called(i, remove_plugin_module(pl.ctx[i], name))
  /\ UNCHANGED <<doc, el, mx, lc, pc, htmlIdx, queue, loaded, instance>>

PluginClassMethods ==
  /\ pl.nops < MaxOps
  /\ \E i \in Contexts, className \in ClassNames, loads \in BOOLEAN :
        pl' = [Called(i, plugin_class_methods(pl.ctx[i], className, loads))
                 EXCEPT !.log = @ \cup LoadErrors(pl.ctx[i], className, loads)]
  /\ UNCHANGED <<doc, el, mx, lc, pc, htmlIdx, queue, loaded, instance>>

NextPlugins ==
  \/ PluginInit
  \/ PluginReset
  \/ PluginClose
  \/ PluginSave
  \/ PluginAdd
  \/ PluginRemove
  \/ PluginClassMethods

InitPlugins == doc = BaseDoc /\ InitState

SpecPlugins == InitPlugins /\ [][NextPlugins]_vars

\* the contexts are initialised and modules are added to them, in any
\* interleaving
NextPluginAdds ==
  \/ PluginInit
  \/ PluginAdd

SpecPluginAdds == InitPlugins /\ [][NextPluginAdds]_vars

----------------------------------------------------------------------------

Init ==
  doc \in (TargetDocs \cup TupleDocs \cup ContinuationDocs \cup RootDocs \cup DuplicateDocs \cup InstanceDocs
           \cup AssemblyDocs) /\ InitState

Spec == Init /\ [][Next]_vars

----------------------------------------------------------------------------
(* Properties *)

Passes == 1..Len(loaded)

\* every fact names a declared target and the caller supplied no override
AllTargetsLoaded ==
  /\ doc.override = NoOverride
  /\ \A i \in FactIdx : F(i).target \in ReferenceTargets /\ F(i).name # ""

\* C1: after the primary and every supplemental pass have completed, the
\* targets' fact sets are pairwise disjoint and together hold every fact.
C1_TargetPartition ==
  (pc = "done" /\ AllTargetsLoaded) =>
     /\ \A p, q \in Passes : p # q => loaded[p].factsInInstance \cap loaded[q].factsInInstance = {}
     /\ \A f \in FactIdx : \E p \in Passes : f \in loaded[p].factsInInstance

\* C2: a pass with active target A holds and emits only facts tagged A: no
\* fact whose target attribute names another target (in the source and when
\* the instance is created) is in A's fact set or in A's instance, at root
\* level or inside a tuple.
C2_OnlyActiveTargetFacts ==
  LET tagged(f, t) == F(f).target = t \/ el.target[f] = t
  IN /\ \A p \in Passes : \A f \in loaded[p].factsInInstance : tagged(f, loaded[p].ixdsTarget)
     /\ (instance.pass # 0 /\ ~instance.failed) =>
           \A k \in 1..Len(instance.facts) :
              tagged(instance.facts[k].fact, loaded[instance.pass].ixdsTarget)

\* ids that a relationship lists in fromRefs and in toRefs
FromToMatched(r) == SeqToSet(doc.rels[r].fromRefs) \cap SeqToSet(doc.rels[r].toRefs)

\* C4: a relationship with an id x in fromRefs and toRefs is reported
\* (relationshipFromToMatch) and no link of the pass has an arc from x to x.
C4_NoSelfLoopArc ==
  \A p \in Passes : \A r \in 1..Len(doc.rels) :
     FromToMatched(r) # {} =>
        /\ \E k \in 1..Len(loaded[p].errors) :
              /\ loaded[p].errors[k].code = "relationshipFromToMatch"
              /\ loaded[p].errors[k].elts = <<<<"relationship", r>>>>
        /\ \A a \in loaded[p].arcs : ~(a.linkrole \in loaded[p].baseSets /\ a.from = a.to)

\* a label that resolves to a fact of the active target of the running pass
VisibleFact(id) == FactsByFactID(id) # 0 /\ el.target[FactsByFactID(id)] = mx.ixdsTarget

\* C8: when a pass has synthesized its links, every arc of a link of the
\* pass runs from a fact visible in the active target to a fact or footnote
\* visible in it, and a relationship without a source fact in the active
\* target has added no arc.
C8_ArcEndpointsVisible ==
  pc = "continuations" =>
     \A a \in mx.arcs :
        a.linkrole \in mx.baseSets =>
           /\ VisibleFact(a.from)
           /\ (VisibleFact(a.to) \/ ModelInlineFootnotesById(a.to) # 0)
           /\ \E i \in 1..Len(doc.rels[a.rel].fromRefs) : VisibleFact(doc.rels[a.rel].fromRefs[i])

\* the set has one target overall: one declared target, carried by every fact
SingleTarget ==
  /\ Cardinality(ReferenceTargets \cup {F(i).target : i \in FactIdx}) = 1
  /\ doc.override = NoOverride \/ doc.override \in ReferenceTargets

Unreferenced(declared, allRefs) == declared \ allRefs

\* C9 (as claimed): in a set with one target overall, default or named, every
\* declared context and unit no fact references is in the scope of the pass.
C9_FallbackAnySingleTarget ==
  (pc = "done" /\ SingleTarget) =>
     /\ Unreferenced(doc.contexts, AllContextRefs) \subseteq loaded[1].contexts
     /\ Unreferenced(doc.units, AllUnitRefs) \subseteq loaded[1].units

\* C9 (amended): in a set with one target overall that is the default target,
\* every declared context and unit no fact references is in the scope of the pass.
C9_FallbackDefaultSingleTarget ==
  (pc = "done" /\ SingleTarget /\ ReferenceTargets = {DEFAULT_TARGET}) =>
     /\ Unreferenced(doc.contexts, AllContextRefs) \subseteq loaded[1].contexts
     /\ Unreferenced(doc.units, AllUnitRefs) \subseteq loaded[1].units

C9_Witness ==
  /\ pc = "done" /\ SingleTarget /\ ReferenceTargets = {DEFAULT_TARGET}
  /\ "c3" \in loaded[1].contexts /\ "c3" \notin AllContextRefs
  /\ "u2" \in loaded[1].units

MultiTarget == Cardinality(ReferenceTargets) > 1

\* the scope of the running pass has been resolved and no fact reassigned yet
ScopeResolved == pc \in {"facts", "references", "relationships"}

ReferencedByActive(c) ==
  \E i \in FactIdx : F(i).kind = "item" /\ el.target[i] = mx.ixdsTarget /\ F(i).contextRef = c

UnitReferencedByActive(u) ==
  \E i \in FactIdx : F(i).kind = "item" /\ el.target[i] = mx.ixdsTarget /\ F(i).unitRef = u

ErrCount(errors, code, elts) ==
  Cardinality({k \in 1..Len(errors) : errors[k].code = code /\ errors[k].elts = elts})

\* the n-th tuple above fact f along the parent references (0: none)
RECURSIVE ParentAt(_, _)
ParentAt(f, n) ==
  IF n = 0 THEN f ELSE IF FactTuple(f) = 0 THEN 0 ELSE ParentAt(FactTuple(f), n - 1)

\* tuple t is, transitively, its own child
InTupleCycle(t) == \E n \in 1..NumFacts : ParentAt(t, n) = t

\* a path of facts, each the parent of the next, that ends where it starts
CyclePath(p) ==
  /\ Len(p) >= 2
  /\ p[1] = p[Len(p)]
  /\ \A i \in 1..(Len(p) - 1) : p[i + 1][1] = "fact" /\ <<"fact", FactTuple(p[i + 1][2])>> = p[i]

\* C3: when the tuples of every document have been assembled, every tuple that
\* is transitively its own child is on the path of a tupleNestingCycle error,
\* and the path names the cycle in membership order from a tuple back to it.
C3_TupleCycleReported ==
  pc = "references" =>
     \A t \in FactIdx :
        InTupleCycle(t) =>
           \E k \in 1..Len(mx.errors) :
              /\ mx.errors[k].code = "tupleNestingCycle"
              /\ InSeq(<<"fact", t>>, mx.errors[k].elts)
              /\ CyclePath(mx.errors[k].elts)

\* elements that start a continuation chain: the item facts and the footnotes
ChainStarts ==
  {<<"fact", i>> : i \in {j \in FactIdx : F(j).kind = "item"}} \cup
  {<<"footnote", i>> : i \in 1..Len(doc.footnotes)}

\* the chain starts the loops of ixdsDiscover pass to locateContinuation
WalkedStarts == {e \in ChainStarts : e[1] = "fact" => F(e[2]).name # ""}

\* the element's continuedAt names an id that no element of the set carries
ContinuedAtMissing(e) ==
  /\ EltRec(e).continuedAt # ""
  /\ ContinuationElements(EltRec(e).continuedAt) = NoElt
  /\ \A d \in HtmlDocs : EltRec(e).continuedAt \notin IdObjects(d)

RECURSIVE SumMissing(_, _)
\* continuationMissing findings for element e in passes 1..p
SumMissing(e, p) ==
  IF p = 0 THEN 0
  ELSE ErrCount(loaded[p].errors, "continuationMissing", <<e>>) + SumMissing(e, p - 1)

\* C5 (as claimed): for a fact or footnote whose continuedAt names an id no
\* element carries, the discovery of the set reports exactly one
\* continuationMissing error for the element and attaches nothing to it.
C5_OneMissingError ==
  pc = "done" =>
     \A e \in ChainStarts :
        ContinuedAtMissing(e) => SumMissing(e, Len(loaded)) = 1 /\ el.contElt[e] = NoElt

\* C5 (amended): for a fact that has a qname, or a footnote, whose continuedAt
\* names an id no element carries, every discovery pass reports exactly one
\* continuationMissing error for the element and attaches nothing to it.
C5_OneMissingErrorPerPass ==
  pc = "completed" =>
     \A e \in WalkedStarts :
        ContinuedAtMissing(e) =>
           ErrCount(mx.errors, "continuationMissing", <<e>>) = 1 /\ el.contElt[e] = NoElt

C5_Witness ==
  /\ pc = "completed" /\ mx.supplemental
  /\ ContinuedAtMissing(<<"fact", 1>>) /\ ContinuedAtMissing(<<"footnote", 1>>)
  /\ ErrCount(mx.errors, "continuationMissing", <<<<"fact", 1>>>>) = 1
  /\ ErrCount(mx.errors, "continuationMissing", <<<<"footnote", 1>>>>) = 1

\* the continuation elements the continuedAt ids name from e on, at most n
RECURSIVE IdChain(_, _)
IdChain(e, n) ==
  IF n = 0 \/ EltRec(e).continuedAt = "" \/ ContinuationElements(EltRec(e).continuedAt) = NoElt
  THEN <<>>
  ELSE <<ContinuationElements(EltRec(e).continuedAt)>> \o
       IdChain(ContinuationElements(EltRec(e).continuedAt), n - 1)

\* following the continuedAt ids from e ends, within n steps, at an element
\* that has no continuedAt
RECURSIVE ChainComplete(_, _)
ChainComplete(e, n) ==
  IF EltRec(e).continuedAt = "" THEN TRUE
  ELSE IF n = 0 \/ ContinuationElements(EltRec(e).continuedAt) = NoElt THEN FALSE
  ELSE ChainComplete(ContinuationElements(EltRec(e).continuedAt), n - 1)

\* e starts a chain e -> elt2 -> ... of one or more continuations
StartsChain(e) == EltRec(e).continuedAt # "" /\ ChainComplete(e, Len(doc.conts))

\* the elements reached from e over the attached _continuationElement links
RECURSIVE AttachedChain(_, _, _)
AttachedChain(contElt, e, n) ==
  IF n = 0 \/ contElt[e] = NoElt THEN <<>>
  ELSE <<contElt[e]>> \o AttachedChain(contElt, contElt[e], n - 1)

\* no element of the chain that starts at e is inside another one of it
ChainNotNested(e) == ChainNestings(<<e>> \o IdChain(e, Len(doc.conts))) = <<>>

\* resolving e in the current state attaches the chain in order and changes
\* neither the links, nor the continuation references, nor the findings
ResolvedAndIdempotent(e) ==
  /\ AttachedChain(el.contElt, e, Len(doc.conts) + 1) = IdChain(e, Len(doc.conts))
  /\ locateContinuation([el |-> el, mx |-> mx, lc |-> lc], e).el = el
  /\ locateContinuation([el |-> el, mx |-> mx, lc |-> lc], e).lc = lc
  /\ locateContinuation([el |-> el, mx |-> mx, lc |-> lc], e).mx = mx

\* the fact loop of the running pass has resolved every chain start
ChainsResolved == pc \in {"references", "relationships", "continuations", "completed"}

\* C6 (as claimed): once the pass has resolved the chain starts, each chain
\* e -> elt2 -> ... -> eltN is attached in chain order, and resolving e again
\* changes no link and no continuation reference and reports nothing.
C6_ResolveIdempotent ==
  ChainsResolved => \A e \in WalkedStarts : StartsChain(e) => ResolvedAndIdempotent(e)

\* C6 (amended): the same for the chains in which no element is nested in
\* another element of the chain.
C6_ResolveIdempotentUnnested ==
  ChainsResolved =>
     \A e \in WalkedStarts : (StartsChain(e) /\ ChainNotNested(e)) => ResolvedAndIdempotent(e)

C6_Witness ==
  /\ ChainsResolved /\ mx.supplemental
  /\ StartsChain(<<"fact", 1>>) /\ ChainNotNested(<<"fact", 1>>)
  /\ Len(IdChain(<<"fact", 1>>, Len(doc.conts))) = MaxConts
  /\ AttachedChain(el.contElt, <<"fact", 1>>, Len(doc.conts) + 1) = IdChain(<<"fact", 1>>, Len(doc.conts))

\* the element n attached links after e (NoElt when the links end before)
RECURSIVE NthAttached(_, _)
NthAttached(e, n) ==
  IF n = 0 THEN e ELSE IF e = NoElt \/ el.contElt[e] = NoElt THEN NoElt ELSE NthAttached(el.contElt[e], n - 1)

\* following the continuedAt ids from e runs into an element seen before
ChainCyclic(e) ==
  /\ Len(IdChain(e, Len(doc.conts) + 1)) > Len(doc.conts)

\* C7: a walk that reaches an element of its chain reports continuationCycle
\* for the chain, and when every fact and footnote has been resolved no
\* element reaches itself over the attached links.
C7_NoAttachedCycle ==
  pc = "references" =>
     /\ \A e \in WalkedStarts :
           ChainCyclic(e) =>
              \E k \in 1..Len(mx.errors) :
                 mx.errors[k].code = "continuationCycle" /\ mx.errors[k].elts[1] = e
     /\ \A e \in AllElts : \A n \in 1..Cardinality(AllElts) : NthAttached(e, n) # e

----------------------------------------------------------------------------
(* Selection of the primary target *)

\* the modelXbrl of the primary pass
PrimaryModelXbrl == IF loaded = <<>> THEN mx ELSE loaded[1]

\* several targets are declared, none is supplied, and the primary pass has
\* selected its target
SeveralTargetsSelected ==
  /\ doc.override = NoOverride
  /\ Cardinality(ReferenceTargets) > 1
  /\ (pc # "select" \/ loaded # <<>>)

\* C11 (as stated): with several declared targets and no override, the active
\* target of the primary pass is the target of the first references
\* declaration in document order
C11_PrimaryIsFirstDeclared ==
  SeveralTargetsSelected => PrimaryModelXbrl.ixdsTarget = doc.references[1]

\* C11 (amended): with several declared targets and no override, the active
\* target of the primary pass is the declared target that is first in the
\* sorted order of the target names
C11_PrimaryIsFirstSorted ==
  SeveralTargetsSelected =>
     /\ PrimaryModelXbrl.ixdsTarget \in ReferenceTargets
     /\ \A t \in ReferenceTargets : PrimaryModelXbrl.ixdsTarget <= t

\* a primary pass whose target is not the one declared first
C11_Witness ==
  /\ SeveralTargetsSelected
  /\ pc = "done"
  /\ PrimaryModelXbrl.ixdsTarget # doc.references[1]
  /\ PrimaryModelXbrl.ixdsTarget = 1

----------------------------------------------------------------------------
(* Passes of a document set with several targets *)

\* passes completed, running and still queued
PassesScheduled == Len(loaded) + (IF pc = "done" THEN 0 ELSE 1) + Len(queue)

\* C12: with N > 1 declared targets and no override, discovery runs exactly one
\* pass per declared target, the primary pass first and a supplemental pass
\* for each other target; no pass after the selection of the primary target
\* schedules another pass; an instance is materialized only after every
\* supplemental pass has completed
C12_OnePassPerTarget ==
  SeveralTargetsSelected =>
     /\ PassesScheduled = Cardinality(ReferenceTargets)
     /\ \A p \in 1..Len(loaded) :
           /\ loaded[p].supplemental <=> p > 1
           /\ loaded[p].ixdsTarget \in ReferenceTargets
           /\ \A q \in 1..Len(loaded) : loaded[q].ixdsTarget = loaded[p].ixdsTarget => q = p
     /\ pc = "done" => {loaded[p].ixdsTarget : p \in 1..Len(loaded)} = ReferenceTargets
     /\ instance # NoInstance => pc = "done" /\ queue = <<>>

\* the instance of a supplemental target is materialized after two passes
C12_Witness ==
  /\ SeveralTargetsSelected
  /\ pc = "done"
  /\ Len(loaded) = 2
  /\ loaded[2].supplemental
  /\ instance.pass = 2

----------------------------------------------------------------------------
(* A supplied target that no references declaration declares *)

UndeclaredOverride ==
  /\ doc.override # NoOverride
  /\ doc.override \notin ReferenceTargets
  /\ loaded # <<>>

HasFinding(findings, code) == \E k \in 1..Len(findings) : findings[k].code = code

\* C13 (as stated): a supplied target that no references declaration declares
\* is reported by a warning and not by an error, is the active target of the
\* pass, and the fact set and the context and unit scope of the pass are empty
C13_UndeclaredOverrideEmpty ==
  UndeclaredOverride =>
     /\ loaded[1].ixdsTarget = doc.override
     /\ HasFinding(loaded[1].warnings, "ixdsTargetNotDefined")
     /\ ~HasFinding(loaded[1].errors, "ixdsTargetNotDefined")
     /\ loaded[1].facts = <<>> /\ loaded[1].factsInInstance = {}
     /\ loaded[1].contexts = {} /\ loaded[1].units = {}

\* C13 (amended): a supplied target that no references declaration declares
\* and no fact or tuple carries is reported by a warning and not by an error,
\* is the active target of the pass, and the fact set of the pass is empty;
\* the context and unit scope is empty for a named target and holds exactly
\* the declared contexts and units that no fact references for the default
\* target
C13_UnusedUndeclaredOverrideEmpty ==
  (UndeclaredOverride /\ \A i \in FactIdx : F(i).target # doc.override) =>
     /\ loaded[1].ixdsTarget = doc.override
     /\ HasFinding(loaded[1].warnings, "ixdsTargetNotDefined")
     /\ ~HasFinding(loaded[1].errors, "ixdsTargetNotDefined")
     /\ loaded[1].facts = <<>> /\ loaded[1].factsInInstance = {}
     /\ loaded[1].contexts =
          (IF doc.override = DEFAULT_TARGET THEN Unreferenced(doc.contexts, AllContextRefs) ELSE {})
     /\ loaded[1].units =
          (IF doc.override = DEFAULT_TARGET THEN Unreferenced(doc.units, AllUnitRefs) ELSE {})

\* a completed pass for a named target that nothing declares or carries,
\* over facts of another target that take part in a relationship
C13_Witness ==
  /\ UndeclaredOverride
  /\ pc = "done"
  /\ doc.override = 2
  /\ \A i \in FactIdx : F(i).target = 1
  /\ doc.rels # <<>>
  /\ HasFinding(loaded[1].warnings, "ixdsTargetNotDefined")
  /\ loaded[1].factsInInstance = {}

----------------------------------------------------------------------------
(* Root elements that cannot be created *)

RootCreationFailed == RootTargets \cap doc.rootFail # {}

\* C14: when the root element of a target cannot be created, discovery of the
\* document set stops at once with a failure that is not a logged finding: no
\* pass gets past the creation of the root elements, and nothing is logged
\* for it
C14_RootFailureAborts ==
  RootCreationFailed =>
     /\ pc \in {"select", "index", "resources", "aborted"}
     /\ ~HasFinding(mx.errors, "Exception")

----------------------------------------------------------------------------
(* Findings that do not stop discovery *)

\* the running pass has reported a finding with this code for the element
FindingFor(code, e) ==
  \E k \in 1..Len(mx.errors) : mx.errors[k].code = code /\ InSeq(e, mx.errors[k].elts)

\* the facts the fact loop locates: those that have a qname
LocatedFacts == {f \in FactIdx : F(f).name # ""}

TupleFindingsReported ==
  \A f \in LocatedFacts :
     /\ (F(f).tupleRef # "" /\ TuplesByTupleID(F(f).tupleRef) = 0)
           => FindingFor("tupleRefMissing", <<"fact", f>>)
     /\ (FactTuple(f) # 0 /\ F(f).order = 0)
           => FindingFor("tupleMemberOrderMissing", <<"fact", f>>)
     /\ (F(f).kind = "tuple" /\ InTupleCycle(f))
           => FindingFor("tupleNestingCycle", <<"fact", f>>)

ContinuationFindingsReported ==
  \A e \in WalkedStarts : ContinuedAtMissing(e) => FindingFor("continuationMissing", e)

RelationshipFindingsReported ==
  \A r \in 1..Len(doc.rels) :
     /\ (\E i \in 1..Len(doc.rels[r].toRefs) : InSeq(doc.rels[r].toRefs[i], doc.rels[r].fromRefs))
           => FindingFor("relationshipFromToMatch", <<"relationship", r>>)
     /\ (\E i \in 1..Len(doc.rels[r].toRefs) :
            /\ ModelInlineFootnotesById(doc.rels[r].toRefs[i]) = 0
            /\ FactsByFactID(doc.rels[r].toRefs[i]) = 0)
           => FindingFor("relationshipToRef", <<"relationship", r>>)

ActiveFactsInFactSet ==
  \A f \in LocatedFacts : el.target[f] = mx.ixdsTarget => f \in mx.factsInInstance

\* C15: structural findings never stop discovery: no pass is left by an
\* exception and, when a pass completes, every unresolved tupleRef, missing
\* order, tuple nesting cycle, missing continuation, self-loop relationship
\* and unresolved toRef of the input has been reported and every fact of the
\* active target is in the fact set of the pass
C15_FindingsDoNotStop ==
  /\ pc # "aborted"
  /\ pc = "completed" =>
        /\ TupleFindingsReported
        /\ ContinuationFindingsReported
        /\ RelationshipFindingsReported
        /\ ActiveFactsInFactSet

----------------------------------------------------------------------------
(* Ids that more than one element carries *)

\* ids carried by more than one fact, tuple, footnote or continuation, and
\* tupleIDs carried by more than one tuple
DuplicatedIds ==
  {id \in {EltRec(e).id : e \in AllElts} :
     id # "" /\ Cardinality({e \in AllElts : EltRec(e).id = id}) > 1}
  \cup
  {id \in {F(i).tupleID : i \in FactIdx} :
     id # "" /\ Cardinality({i \in FactIdx : F(i).tupleID = id}) > 1}

\* first element in document order that carries the id
FirstTuple(id) == CHOOSE i \in FactIdx : F(i).tupleID = id /\ \A j \in FactIdx : F(j).tupleID = id => i <= j
FirstFact(id) == CHOOSE i \in FactIdx : F(i).id = id /\ \A j \in FactIdx : F(j).id = id => i <= j
FirstContinuation(id) ==
  CHOOSE i \in 1..Len(doc.conts) :
     doc.conts[i].id = id /\ \A j \in 1..Len(doc.conts) : doc.conts[j].id = id => i <= j

\* C16: when an id occurs on more than one fact, footnote, tuple or
\* continuation, the pass completes with the duplication reported as an error,
\* and every tupleRef, continuedAt and fromRef resolves to the first element
\* in document order that carries the id
C16_DuplicateIdFirstWins ==
  pc = "completed" =>
     /\ \A id \in DuplicatedIds : \E k \in 1..Len(mx.errors) : InSeq(id, mx.errors[k].ids)
     /\ \A f \in LocatedFacts :
           (F(f).tupleRef # "" /\ F(f).order # 0 /\ \E i \in FactIdx : F(i).tupleID = F(f).tupleRef)
              => InSeq(f, el.unordered[FirstTuple(F(f).tupleRef)])
     /\ \A e \in WalkedStarts :
           (\E i \in 1..Len(doc.conts) : doc.conts[i].id = EltRec(e).continuedAt /\ EltRec(e).continuedAt # "")
              => el.contElt[e] = <<"continuation", FirstContinuation(EltRec(e).continuedAt)>>
     /\ \A r \in mx.targetRelationships :
           \E i \in 1..Len(doc.rels[r].fromRefs) :
              /\ \E j \in FactIdx : F(j).id = doc.rels[r].fromRefs[i]
              /\ el.target[FirstFact(doc.rels[r].fromRefs[i])] = mx.ixdsTarget

----------------------------------------------------------------------------
(* Targets of tuple members *)

\* C17: after tuple assembly every fact in a tuple's child list has the
\* tuple's target, and a fact whose parent tuple has another target is
\* reported (tuple member different target) and is not in that child list
C17_TupleChildrenSameTarget ==
  pc = "references" =>
     /\ \A t \in FactIdx : \A k \in 1..Len(el.modelTupleFacts[t]) :
           el.target[el.modelTupleFacts[t][k]] = el.target[t]
     /\ \A f \in LocatedFacts :
           (FactTuple(f) # 0 /\ el.target[f] # el.target[FactTuple(f)]) =>
              /\ FindingFor("tupleMemberDifferentTarget", <<"fact", f>>)
              /\ ~InSeq(f, el.modelTupleFacts[FactTuple(f)])

----------------------------------------------------------------------------
(* Emission order of the target instance *)

\* the stage of createTargetInstance an emission belongs to
EmissionStage(kind) ==
  CASE kind = "dimensionDefaults" -> 0
    [] kind \in {"roleRef", "arcroleRef"} -> 1
    [] kind \in {"context", "unit"} -> 2
    [] kind = "fact" -> 3
    [] kind = "link" -> 4

RoleRank(role) == CHOOSE k \in 1..Len(LinkRoles) : LinkRoles[k] = role

Materialized == instance.pass > 0 /\ ~instance.failed

\* C18: in every materialized target instance the dimension defaults are
\* loaded first, then the role and arcrole references are emitted, then the
\* contexts and units, then all facts, then all link containers: no context
\* or unit follows a fact, no link container precedes a fact, and the link
\* containers come in ascending order of their link role.
C18_EmissionOrder ==
  Materialized =>
    \A i, j \in 1..Len(instance.emitted) :
      i < j =>
        /\ EmissionStage(instance.emitted[i].kind) <= EmissionStage(instance.emitted[j].kind)
        /\ (instance.emitted[i].kind = "link" /\ instance.emitted[j].kind = "link")
             => RoleRank(instance.emitted[i].name) <= RoleRank(instance.emitted[j].name)

\* an instance with references, contexts, a unit, several facts and link
\* containers of both link roles, from links registered in descending role order
C18_Witness ==
  /\ Materialized
  /\ Len(loaded[instance.pass].links) >= 2
  /\ loaded[instance.pass].links[1].role = "L2"
  /\ \E i, j \in 1..Len(instance.emitted) :
       /\ instance.emitted[i] = [kind |-> "link", name |-> "L1"]
       /\ instance.emitted[j] = [kind |-> "link", name |-> "L2"]
  /\ Cardinality({i \in 1..Len(instance.emitted) : instance.emitted[i].kind = "fact"}) >= 2
  /\ \E i \in 1..Len(instance.emitted) : instance.emitted[i].kind = "unit"
  /\ \E i \in 1..Len(instance.emitted) : instance.emitted[i].kind = "context"
  /\ \E i \in 1..Len(instance.emitted) : instance.emitted[i].kind = "roleRef"

----------------------------------------------------------------------------
(* Skipped invalid facts *)

RECURSIVE FactTree(_, _)
\* the facts of a modelXbrl with the facts nested in their tuples, n levels deep
FactTree(facts, n) ==
  IF n = 0 THEN facts
  ELSE FactTree(facts \cup UNION {SeqToSet(el.modelTupleFacts[f]) : f \in facts}, n - 1)

InstanceFacts == {instance.facts[i].fact : i \in 1..Len(instance.facts)}

\* the facts of the materialized modelXbrl that are missing from the instance
\* and are not valid
OmittedNotValid ==
  {f \in FactTree(SeqToSet(loaded[instance.pass].facts), Len(doc.facts)) :
     f \notin InstanceFacts /\ F(f).xValid < VALID}

\* the omitted facts whose place in the instance exists (no tuple around them
\* is omitted) and whose validation state is below NONE
OmittedInvalidInPlace ==
  {f \in OmittedNotValid :
     /\ F(f).xValid < NONE
     /\ \/ f \in SeqToSet(loaded[instance.pass].facts)
        \/ \E t \in InstanceFacts : f \in SeqToSet(el.modelTupleFacts[t])}

SkippedReported(n) ==
  /\ instance.skipped = n
  /\ (n > 0) = (instance.warnings # <<>>)
  /\ \A i \in 1..Len(instance.warnings) :
       instance.warnings[i].code = "invalidFactsSkipped" /\ Len(instance.warnings[i].elts) = n

\* C19 (as stated): with invalid-skipping, the count reported by the warning
\* is the number of facts left out of the instance because they are not
\* valid, and a warning is reported whenever that number is positive.
C19_SkippedCountsOmitted ==
  (Materialized /\ instance.skipInvalid) => SkippedReported(Cardinality(OmittedNotValid))

\* C19 (amended): with invalid-skipping, the count reported by the warning is
\* the number of omitted facts whose validation state is below NONE and whose
\* enclosing tuples are all emitted, and a warning is reported exactly when
\* that number is positive; facts in state NONE and the facts nested in an
\* omitted tuple are left out without being counted.
C19_SkippedCountsInvalidInPlace ==
  (Materialized /\ instance.skipInvalid) => SkippedReported(Cardinality(OmittedInvalidInPlace))

\* an instance that omits a counted invalid fact, and an uncounted fact too
C19_Witness ==
  /\ Materialized /\ instance.skipInvalid
  /\ instance.skipped > 0
  /\ instance.warnings # <<>>
  /\ Cardinality(OmittedNotValid) > instance.skipped
  /\ instance.facts # <<>>

----------------------------------------------------------------------------
(* Materialization and the source model *)

\* C20: materializing a target instance changes no state of the resolved
\* source model: the loaded modelXbrls with their facts, link containers,
\* locators (attributes included), arcs and footnotes, and the elements they
\* share, are the same after createTargetInstance as before it.
C20_MaterializationIsPure ==
  [][pc = "done" => (loaded' = loaded /\ el' = el /\ mx' = mx)]_vars

----------------------------------------------------------------------------
(* Plugin context lifecycle *)

\* the context as close() leaves it
ClosedContext(c) ==
  /\ c.config.keys = "cleared" /\ c.config.modules = <<>> /\ c.config.classes = <<>>
  /\ c.infos = {} /\ c.methods = {}
  /\ c.controller = "cntlr"

\* the context as the first init(loadPluginConfig=False) leaves it
FreshContext(c) ==
  /\ c.config.keys = "set" /\ c.config.modules = <<>> /\ c.config.classes = <<>>
  /\ c.infos = {} /\ c.methods = {}
  /\ c.controller = "cntlr"

C22_ResetKeepsConfig ==
  [][\A i \in Contexts :
       (pl'.actor = i /\ pl'.nops # pl.nops /\ pl'.ctx[i].last = "reset") =>
          /\ pl'.ctx[i].infos = {} /\ pl'.ctx[i].methods = {}
          /\ pl'.ctx[i].config = pl.ctx[i].config
          /\ pl'.ctx[i].controller = pl.ctx[i].controller]_vars

\* a context reset with modules in its config
C22_Witness ==
  \E i \in Contexts :
    /\ pl.ctx[i].last = "reset" /\ pl.ctx[i].prev = "methods"
    /\ pl.ctx[i].config.modules # <<>> /\ pl.ctx[i].config.classes # <<>>
    /\ pl.ctx[i].infos = {} /\ pl.ctx[i].methods = {}

----------------------------------------------------------------------------
(* Independent plugin registries *)

ModuleSet(cfg) == SeqToSet(cfg.modules)

\* the class names of the config that list the module, in the order of the
\* 'classes' dict
ClassesOf(cfg, m) ==
  LET idx == SortedSeq({k \in 1..Len(cfg.classes) : m \in SeqToSet(cfg.classes[k].mods)})
  IN [i \in 1..Len(idx) |-> cfg.classes[idx[i]].cls]

ClassPos(cfg, cls) == CHOOSE k \in 1..Len(cfg.classes) : cfg.classes[k].cls = cls

\* an add_plugin_module call of context i has just returned with a module added
AddedBy(i) ==
  /\ pl'.actor = i /\ pl'.nops # pl.nops
  /\ pl'.ctx[i].last = "add" /\ ~pl'.ctx[i].raised
  /\ pl.ctx[i].config.keys = "set"
  /\ pl'.ctx[i].changed /\ pl'.ctx[i].config.modules # <<>>

\* the module the call added: add_plugin_module puts it last
AddedName(i) == pl'.ctx[i].config.modules[Len(pl'.ctx[i].config.modules)]

\* a call on context i leaves the module and class registries of the other
\* contexts alone, and an add lists the module, with the modules it imports,
\* next to the modules listed before
RegistriesIndependent(i) ==
  /\ (pl'.actor = i /\ pl'.nops # pl.nops) =>
        \A j \in Contexts \ {i} : pl'.ctx[j].config = pl.ctx[j].config
  /\ AddedBy(i) =>
        ModuleSet(pl'.ctx[i].config) =
          ModuleSet(pl.ctx[i].config) \cup {AddedName(i)} \cup SeqToSet(ImportsOf(AddedName(i)))

\* C23 (as stated): two plugin contexts of one controller hold independent
\* registries: in any interleaving of add_plugin_module calls each context
\* lists exactly the modules added to it and, per module, its class-method
\* names in declaration order, and no call on one context changes the modules
\* or classes of the other.
C23_IndependentDeclarationOrder ==
  [][\A i \in Contexts :
       /\ RegistriesIndependent(i)
       /\ AddedBy(i) =>
            \A m \in ModuleSet(pl'.ctx[i].config) :
               ClassesOf(pl'.ctx[i].config, m) = ClassMethodsOf(m)]_vars

\* C23 (amended): as stated, except that per module the config lists exactly
\* its class-method names, in the order in which the class names were first
\* registered in the context: the names a module is the first to register
\* follow its declaration order, a name registered before keeps its place.
C23_IndependentRegistrationOrder ==
  [][\A i \in Contexts :
       /\ RegistriesIndependent(i)
       /\ AddedBy(i) =>
            /\ \A m \in ModuleSet(pl'.ctx[i].config) :
                  SeqToSet(ClassesOf(pl'.ctx[i].config, m)) = SeqToSet(ClassMethodsOf(m))
            /\ \A a, b \in 1..Len(ClassMethodsOf(AddedName(i))) :
                  (/\ a < b
                   /\ ClassIdx(pl.ctx[i].config.classes, ClassMethodsOf(AddedName(i))[a]) = 0
                   /\ ClassIdx(pl.ctx[i].config.classes, ClassMethodsOf(AddedName(i))[b]) = 0)
                  => ClassPos(pl'.ctx[i].config, ClassMethodsOf(AddedName(i))[a])
                       < ClassPos(pl'.ctx[i].config, ClassMethodsOf(AddedName(i))[b])
            /\ \A a, b \in 1..Len(pl.ctx[i].config.classes) :
                  (/\ a < b
                   /\ AddedName(i) \notin ModuleSet(pl.ctx[i].config))
                  => ClassPos(pl'.ctx[i].config, pl.ctx[i].config.classes[a].cls)
                       < ClassPos(pl'.ctx[i].config, pl.ctx[i].config.classes[b].cls)]_vars

\* both contexts hold modules of their own, one of them two modules that
\* declare the same class methods in different orders
C23_Witness ==
  /\ pl.ctx[1].config.modules = <<"plugin2", "plugin1", "plugin3">>
  /\ pl.ctx[2].config.modules = <<"plugin2">>
  /\ ClassesOf(pl.ctx[1].config, "plugin3") # ClassMethodsOf("plugin3")
  /\ ClassesOf(pl.ctx[2].config, "plugin2") = ClassMethodsOf("plugin2")

----------------------------------------------------------------------------
(* Tuple assembly *)

\* the fact loops of the pass have run to their end
Assembled == pc = "references" /\ ~mx.raised

\* the nearest tuple among the ix ancestors anc (nearest first), 0 if none
RECURSIVE NearestTuple(_)
NearestTuple(anc) ==
  IF anc = <<>> THEN 0
  ELSE IF IsTupleElt(Head(anc)) THEN Head(anc)[2]
  ELSE NearestTuple(Tail(anc))

\* facts that carry a name and no tupleRef
StructuralFacts == {f \in FactIdx : F(f).tupleRef = "" /\ F(f).name # ""}

\* C24: a fact without tupleRef is a child of its nearest tuple ancestor
\* whenever it has a tuple ancestor, also when an item fact or a continuation
\* lies between the two; only a fact without tuple ancestor has the root
\* element of its target as parent.
C24_NearestTupleAncestor ==
  Assembled =>
    \A f \in StructuralFacts :
       IF NearestTuple(IxAncestors(<<"fact", f>>)) # 0
       THEN el.target[f] = el.target[NearestTuple(IxAncestors(<<"fact", f>>))] =>
               el.ixFactParent[f] = <<"fact", NearestTuple(IxAncestors(<<"fact", f>>))>>
       ELSE el.ixFactParent[f] = RootOf(mx.roots, el.target[f])

\* two members differ in the normalized text or in the value or presence of
\* an attribute other than order
MembersDiffer(f, g) ==
  \/ normalizeSpace(F(f).value) # normalizeSpace(F(g).value)
  \/ \E a \in StringAttrs : F(f)[a] # F(g)[a]
  \/ el.target[f] # el.target[g]

\* the groups of more than one member that share an order value in tuple t
SharedOrders(t) ==
  {o \in {F(el.unordered[t][j]).order : j \in 1..Len(el.unordered[t])} :
     Len(OrderGroup(el.unordered[t], o)) > 1}

SameOrderReported(t, o) ==
  \E k \in 1..Len(mx.errors) :
     /\ mx.errors[k].code = "tupleSameOrderMembersUnequal"
     /\ SeqToSet(mx.errors[k].elts) =
          {<<"fact", f>> : f \in SeqToSet(OrderGroup(el.unordered[t], o))}

\* C25: for every group of members of a tuple that share an order value the
\* same-order error is reported exactly when two members of the group differ
\* in normalized text or in the value or presence of a non-order attribute,
\* whichever member comes first.
C25_SameOrderMismatchIff ==
  Assembled =>
    \A t \in SeqToSet(TupleElements) : \A o \in SharedOrders(t) :
       SameOrderReported(t, o) <=>
          \E f, g \in SeqToSet(OrderGroup(el.unordered[t], o)) : MembersDiffer(f, g)

\* the first member recorded for tuple t under order o
FirstOfOrder(t, o) ==
  el.unordered[t][CHOOSE j \in 1..Len(el.unordered[t]) :
                     /\ F(el.unordered[t][j]).order = o
                     /\ \A i \in 1..(j - 1) : F(el.unordered[t][i]).order # o]

\* C26: after tuple assembly the child list of every tuple is strictly
\* ascending in order, holds exactly one child for every order value recorded
\* for the tuple, and the child kept for a shared value is the first recorded.
C26_ChildrenAscendingFirstWins ==
  Assembled =>
    \A t \in SeqToSet(TupleElements) :
       /\ \A k \in 1..(Len(el.modelTupleFacts[t]) - 1) :
             F(el.modelTupleFacts[t][k]).order < F(el.modelTupleFacts[t][k + 1]).order
       /\ {F(el.modelTupleFacts[t][k]).order : k \in 1..Len(el.modelTupleFacts[t])} =
             {F(el.unordered[t][j]).order : j \in 1..Len(el.unordered[t])}
       /\ \A k \in 1..Len(el.modelTupleFacts[t]) :
             el.modelTupleFacts[t][k] = FirstOfOrder(t, F(el.modelTupleFacts[t][k]).order)

\* tuple a holds b under order 2 and c and d under order 1: the child list
\* is c, b
C26_Witness ==
  /\ Assembled
  /\ el.unordered[1] = <<2, 3, 4>>
  /\ F(2).order = 2 /\ F(3).order = 1 /\ F(4).order = 1
  /\ el.modelTupleFacts[1] = <<3, 2>>

----------------------------------------------------------------------------
(* Reassignment of relationship endpoints *)

\* fact f is named by the toRefs of a relationship one of whose fromRefs
\* names a fact of target tg (targets as in the element attributes tgs)
ToRefOfRelationshipFrom(tgs, f, tg) ==
  \E r \in 1..Len(doc.rels) :
     /\ \E i \in 1..Len(doc.rels[r].toRefs) : FactsByFactID(doc.rels[r].toRefs[i]) = f
     /\ \E i \in 1..Len(doc.rels[r].fromRefs) :
           /\ FactsByFactID(doc.rels[r].fromRefs[i]) # 0
           /\ tgs[FactsByFactID(doc.rels[r].fromRefs[i])] = tg

----------------------------------------------------------------------------
(* Termination of discovery *)

\* ixdsDiscover has returned for every pass, or has raised
DiscoveryEnded == pc \in {"done", "aborted"}

\* passes completed and running
PassesStarted == Len(loaded) + (IF DiscoveryEnded THEN 0 ELSE 1)

\* C28: discovery of a finite document set ends: every continuation walk
\* ends, also over a chain that runs into itself, every tuple nesting check
\* ends, also over tuples that name each other as parent, and no more passes
\* are run than targets are declared.
C28_DiscoveryTerminates ==
  /\ <>DiscoveryEnded
  /\ [](PassesStarted <= Cardinality(ReferenceTargets))
  /\ [](Len(lc.loop.chain) <= Len(doc.conts) + 2)
  /\ [](Len(lc.loop.nesting) <= Len(doc.facts))

\* discovery has ended after two passes over a set in which the chain of a
\* runs into itself and the tuples t1 and t2 name each other as parent
C28_Witness ==
  /\ pc = "done" /\ Len(loaded) = 2
  /\ doc.facts[1].tupleRef = "t2" /\ doc.facts[2].tupleRef = "t1"
  /\ ChainCyclic(<<"fact", 3>>)
  /\ \E k \in 1..Len(loaded[1].errors) : loaded[1].errors[k].code = "continuationCycle"
  /\ \E k \in 1..Len(loaded[1].errors) : loaded[1].errors[k].code = "tupleNestingCycle"

----------------------------------------------------------------------------
(* Contexts and units of the facts of a pass *)

\* the item facts of the instance of the active target
InstanceItems == {f \in mx.factsInInstance : F(f).kind = "item"}

\* C29: when a pass completes, every item fact in the facts of the active
\* target, also one that a relationship brought in from another target,
\* names a context, and with a unitRef a unit, that the pass has discovered
\* for the active target.
C29_ReferencedResourcesInScope ==
  (pc = "completed" /\ ~mx.raised) =>
     \A f \in InstanceItems :
        /\ F(f).contextRef \in mx.contexts
        /\ F(f).unitRef # "" => F(f).unitRef \in mx.units

----------------------------------------------------------------------------
(* Locators of the materialized instance *)

\* createTargetInstance has raised in its link loop: the root element
\* exists and the facts were created, but the new fact of a locator was
\* looked up in vain
LocatorLookupFailed ==
  /\ instance.pass > 0 /\ instance.failed
  /\ loaded[instance.pass].ixdsTarget \in loaded[instance.pass].roots
  /\ ~createFacts(el.modelTupleFacts, loaded[instance.pass].facts, 0,
                  instance.skipInvalid, {}).overflow

\* the facts that the locators of the emitted links of modelXbrl m name
EmittedLocatorFacts(m) ==
  {m.footnoteLocs[j].fact : j \in SeqToSet(LocOrder(m.footnoteLocs, EmittedLinks(m)))} \cup
  {FactsByFactID(l[2]) :
     l \in {x \in m.locs : \E k \in 1..Len(EmittedLinks(m)) :
                              EmittedLinks(m)[k].role = x[1] /\ EmittedLinks(m)[k].ix = 11}}

\* C30: a materialization does not fail on a locator and emits no locator
\* whose fact is missing from the instance: every locator of an emitted link
\* names a fact emitted in the same instance, and with a referenced fact left
\* out the materialization still completes.
C30_NoDanglingLocator ==
  /\ ~LocatorLookupFailed
  /\ Materialized => EmittedLocatorFacts(loaded[instance.pass]) \subseteq InstanceFacts

====
